---- MODULE Spec2Model ----
(***************************************************************************)
(* InsiderWire: the filing-to-signal pipeline.                             *)
(*                                                                         *)
(*   - SignalScorer   (domain/scoring/calculator.ts, rules.ts)             *)
(*   - DocumentParser (domain/sec/parser.ts)                               *)
(*   - Pipeline       (Form4Processor, sql/queries/insiders)               *)
(*                                                                         *)
(* Numbers are fixed-point with two decimals (an integer count of          *)
(* hundredths): 150.50 is 15050.  The float NaN is an integer outside the  *)
(* range of the numbers that occur.  Text is a sequence of one-character   *)
(* strings.  An optional value (T | null | undefined) is the empty         *)
(* sequence when absent and the one-element sequence <<x>> when present.   *)
(***************************************************************************)
EXTENDS Integers, Sequences, FiniteSets, TLC

VARIABLES
    xmlText,        \* document handed to Form4Parser.parse (null: none)
    form4Data,      \* Form4Data it returned (null before the call)
    scoreInput,     \* ScoreInput handed to calculateSignalScore
    scoreResult,    \* ScoreResult it returned (null before the call)
    alertArgs,      \* (signalScore, transactionValue) handed to shouldTriggerUrgentAlert
    alertResult,    \* what it returned (null before the call)
    issuers,        \* table issuers: set of rows
    insiders,       \* table insiders: set of rows
    transactions,   \* table transactions: set of rows
    slackAlerts,    \* table slack_alerts: set of rows
    webhookUrl,     \* SlackClient.webhookUrl (empty: not configured)
    notifications,  \* messages the webhook has accepted, in order
    run,            \* per invocation of process(): position, locals, stats
    started,        \* number of invocations of process() so far
    passes,         \* per filing id: its last two completed passes
    feed,           \* the lists the SEC feed may answer with
    digest          \* the invocation of generateDigest: position, locals, stats

scorerVars == <<scoreInput, scoreResult, alertArgs, alertResult>>

parserVars == <<xmlText, form4Data>>

storeVars == <<issuers, insiders, transactions, slackAlerts>>

pipelineVars == <<storeVars, webhookUrl, notifications, run, started, passes, feed>>

digestVars == <<digest>>

vars == <<parserVars, scorerVars, pipelineVars, digestVars>>

NaN == 0 - 2000000000
null == <<>>
Some(x) == <<x>>

\* The parser, the scorer at rest: nothing handed to them.
ParserIdle == xmlText = null /\ form4Data = null

ScorerIdle ==
    /\ scoreInput = null /\ scoreResult = null
    /\ alertArgs = null /\ alertResult = null

\* The invocations of process() that may be in flight: the one the schedule
\* starts and one that overlaps it.
Runners == {"scheduled", "overlapping"}

\* Accession numbers of the filings the feed lists.
A1 == <<"A","1">>
A2 == <<"A","2">>
A3 == <<"A","3">>
A4 == <<"A","4">>
Accessions == {A1, A2, A3, A4}

\* const stats: ProcessorStats = {...} at the head of process()
NewStats ==
    [filingsProcessed |-> 0,
     transactionsCreated |-> 0,
     transactionsUpdated |-> 0,
     urgentAlertsPosted |-> 0,
     errors |-> <<>>]

\* What an invocation has done to the outside so far (not program state).
NothingDone ==
    [listFetchFailed |-> FALSE,
     documentFetches |-> <<>>,
     issuerUpserts |-> 0,
     insiderUpserts |-> 0,
     created |-> <<>>,
     updated |-> <<>>,
     upserted |-> <<>>,
     sendAttempts |-> 0,
     sent |-> 0,
     alertsRecorded |-> 0,
     thrown |-> <<>>,
     log |-> <<>>]

\* The locals of an invocation standing at pc with nothing in hand.  Kept
\* with them for the filing at hand: the rows upserted (saved) with the
\* score input of each, the answers of the notifier (sends), and the store
\* as it was when the document was fetched (before); for the invocation,
\* the transactions stored when it began (entry).
Locals(pc) ==
    [pc |-> pc,
     stats |-> NewStats,
     filings |-> <<>>,
     index |-> 0,
     xmlContent |-> null,
     form4Data |-> null,
     issuer |-> null,
     insider |-> null,
     txIndex |-> 0,
     isFirstActivityIn180Days |-> null,
     additionalInsidersInCluster |-> null,
     transaction |-> null,
     previousTx |-> null,
     saved |-> <<>>,
     sends |-> <<>>,
     before |-> null,
     atAbort |-> null,
     entry |-> null,
     completed |-> null,
     done |-> NothingDone]

\* const stats: DigestStats = {...} at the head of generateDigest(date)
NewDigestStats(date) ==
    [date |-> date,
     transactionsProcessed |-> 0,
     tickersIncluded |-> 0,
     digestPosted |-> FALSE,
     error |-> null]

\* What an invocation of generateDigest has done to the outside so far,
\* and what it found when it was entered: the number of notifications sent
\* and the alert records written before.
NoDigestDone ==
    [sentBefore |-> 0,
     alertsBefore |-> {},
     postCalls |-> 0,
     sendFailures |-> 0,
     recordAttempts |-> <<>>,
     recordFailures |-> <<>>]

\* The locals of generateDigest standing at pc with nothing in hand;
\* invocations counts the calls made so far.
DigestLocals(pc, invocations) ==
    [pc |-> pc,
     stats |-> NewDigestStats(0),
     transactions |-> <<>>,
     index |-> 0,
     response |-> null,
     invocations |-> invocations,
     done |-> NoDigestDone]

\* The digest job at rest.
DigestIdle == digest = DigestLocals("off", 0)

\* The pipeline at rest: empty store, nothing in flight.
PipelineIdle ==
    /\ issuers = {} /\ insiders = {} /\ transactions = {} /\ slackAlerts = {}
    /\ webhookUrl = <<>>
    /\ notifications = <<>>
    /\ run = [r \in Runners |-> Locals("off")]
    /\ started = 0
    /\ passes = [a \in Accessions |-> <<>>]
    /\ feed = {}

(***************************************************************************)
(* Text helpers                                                            *)
(***************************************************************************)
LowerLetters == <<"a","b","c","d","e","f","g","h","i","j","k","l","m",
                  "n","o","p","q","r","s","t","u","v","w","x","y","z">>
UpperLetters == <<"A","B","C","D","E","F","G","H","I","J","K","L","M",
                  "N","O","P","Q","R","S","T","U","V","W","X","Y","Z">>

\* String.prototype.toUpperCase
toUpperCase(s) ==
    [i \in 1..Len(s) |->
        IF \E k \in 1..26 : LowerLetters[k] = s[i]
        THEN UpperLetters[CHOOSE k \in 1..26 : LowerLetters[k] = s[i]]
        ELSE s[i]]

\* String.prototype.toLowerCase
toLowerCase(s) ==
    [i \in 1..Len(s) |->
        IF \E k \in 1..26 : UpperLetters[k] = s[i]
        THEN LowerLetters[CHOOSE k \in 1..26 : UpperLetters[k] = s[i]]
        ELSE s[i]]

\* String.prototype.includes
includes(s, sub) ==
    \E i \in 0..(Len(s) - Len(sub)) :
        \A j \in 1..Len(sub) : s[i + j] = sub[j]

(***************************************************************************)
(* SignalScorer                                                            *)
(***************************************************************************)
TRANSACTION_CODE_BUY == <<"P">>
TRANSACTION_CODE_SELL == <<"S">>

EXECUTIVE_TITLES == <<
    <<"C","E","O">>,
    <<"C","h","i","e","f"," ","E","x","e","c","u","t","i","v","e"," ","O","f","f","i","c","e","r">>,
    <<"C","F","O">>,
    <<"C","h","i","e","f"," ","F","i","n","a","n","c","i","a","l"," ","O","f","f","i","c","e","r">>,
    <<"C","h","a","i","r","m","a","n">>,
    <<"C","h","a","i","r","w","o","m","a","n">>,
    <<"C","h","a","i","r">>,
    <<"P","r","e","s","i","d","e","n","t">>,
    <<"C","O","O">>,
    <<"C","h","i","e","f"," ","O","p","e","r","a","t","i","n","g"," ","O","f","f","i","c","e","r">> >>

isExecutiveRole(title) ==
    IF title = null \/ title = Some(<<>>) THEN FALSE
    ELSE LET normalizedTitle == toUpperCase(title[1])
         IN  \E k \in 1..Len(EXECUTIVE_TITLES) :
                includes(normalizedTitle, toUpperCase(EXECUTIVE_TITLES[k]))

\* Math.log10(transactionValue / 10_000) in millionths, for the transaction
\* values (in hundredths) above 100,000.00 that the documents and inputs of
\* this model produce; at or below 100,000.00 the logarithm is at most 1.
Log10Table ==
    [v \in {15000000, 20000000, 24000000, 25000000, 30000000, 50000000,
            75000000, 100000000, 150500000, 200000000, 938125000, 1000000000} |->
        CASE v = 15000000   -> 1176091
          [] v = 20000000   -> 1301030
          [] v = 24000000   -> 1380211
          [] v = 25000000   -> 1397940
          [] v = 30000000   -> 1477121
          [] v = 50000000   -> 1698970
          [] v = 75000000   -> 1875061
          [] v = 100000000  -> 2000000
          [] v = 150500000  -> 2177536
          [] v = 200000000  -> 2301030
          [] v = 938125000  -> 2972261
          [] v = 1000000000 -> 3000000]

\* A size multiplier without the floor: the bare logarithm, in millionths
\* (log10 of 0.5 is -0.30103, of 1 is 0, of 10 is 1; of 0 it is -Infinity,
\* which makes the product not a finite number).
sizeMultiplier_noFloor(transactionValue) ==
    IF transactionValue = NaN THEN NaN
    ELSE IF transactionValue <= 0 THEN NaN
    ELSE IF transactionValue = 500000 THEN -301030
    ELSE IF transactionValue = 1000000 THEN 0
    ELSE IF transactionValue = 10000000 THEN 1000000
    ELSE Log10Table[transactionValue]

\* Math.max(1.0, Math.log10(transactionValue / 10_000)) in millionths:
\* log10 of 0 is -Infinity (the maximum is 1.0), of a negative number NaN
\* (Math.max returns NaN).
sizeMultiplier(transactionValue) ==
    IF transactionValue = NaN THEN NaN
    ELSE IF transactionValue < 0 THEN NaN
    ELSE IF transactionValue <= 10000000 THEN 1000000
    ELSE Log10Table[transactionValue]

\* Number(x.toFixed(2)) of the float n / 100000, in hundredths: the nearest
\* hundredth of the magnitude, with the sign put back.
toFixed2(n) ==
    IF n >= 0 THEN (2 * n + 100000) \div 200000
    ELSE -((2 * (-n) + 100000) \div 200000)

roleMultiplierOf(insiderTitle) == IF isExecutiveRole(insiderTitle) THEN 15 ELSE 10

\* A scorer that adds the bonuses after the multiplication.
calculateSignalScore_bonusAfter(input) ==
    LET baseScore == IF input.transactionCode = <<"P">> THEN 1 ELSE -1
        size == sizeMultiplier(input.transactionValue)
        roleMultiplier == roleMultiplierOf(input.insiderTitle)
        firstActivityBonus ==
            IF input.isFirstActivityIn180Days = Some(TRUE) THEN 1 ELSE 0
        clusterBonus ==
            IF input.additionalInsidersInCluster = null THEN 0
            ELSE input.additionalInsidersInCluster[1]
    IN  [score |-> IF size = NaN THEN NaN
                   ELSE toFixed2(baseScore * size * roleMultiplier)
                            + 100 * (firstActivityBonus + clusterBonus),
         breakdown |->
            [baseScore |-> baseScore,
             sizeMultiplier |-> IF size = NaN THEN NaN ELSE toFixed2(size * 10),
             roleMultiplier |-> roleMultiplier,
             firstActivityBonus |-> firstActivityBonus,
             clusterBonus |-> clusterBonus]]

calculateSignalScore(input) ==
    LET baseScore == IF input.transactionCode = <<"P">> THEN 1 ELSE -1
        size == sizeMultiplier(input.transactionValue)
        roleMultiplier == roleMultiplierOf(input.insiderTitle)
        firstActivityBonus ==
            IF input.isFirstActivityIn180Days = Some(TRUE) THEN 1 ELSE 0
        clusterBonus ==
            IF input.additionalInsidersInCluster = null THEN 0
            ELSE input.additionalInsidersInCluster[1]
    IN  [score |-> IF size = NaN THEN NaN
                   ELSE toFixed2((baseScore + firstActivityBonus + clusterBonus)
                                    * size * roleMultiplier),
         breakdown |->
            [baseScore |-> baseScore,
             sizeMultiplier |-> IF size = NaN THEN NaN ELSE toFixed2(size * 10),
             roleMultiplier |-> roleMultiplier,
             firstActivityBonus |-> firstActivityBonus,
             clusterBonus |-> clusterBonus]]

URGENT_ALERT_SCORE_THRESHOLD == 500
URGENT_ALERT_VALUE_THRESHOLD == 25000000

abs(x) == IF x < 0 THEN -x ELSE x

\* A router that wants both thresholds met.
shouldTriggerUrgentAlert_both(signalScore, transactionValue) ==
    /\ (signalScore # NaN /\ abs(signalScore) >= 500)
    /\ (transactionValue # NaN /\ transactionValue >= 25000000)

\* A router that looks at the score only.
shouldTriggerUrgentAlert_scoreOnly(signalScore, transactionValue) ==
    signalScore # NaN /\ abs(signalScore) >= 500

\* Math.abs(NaN) >= 5.0 and NaN >= 250_000 are false.
shouldTriggerUrgentAlert(signalScore, transactionValue) ==
    \/ (signalScore # NaN /\ abs(signalScore) >= 500)
    \/ (transactionValue # NaN /\ transactionValue >= 25000000)

(***************************************************************************)
(* DocumentParser                                                          *)
(*                                                                         *)
(* A document is what the parser's regular expressions see of its text:    *)
(* for each tag the parser looks up, the sequence of that tag's            *)
(* occurrences in document order, each either in the wrapper shape         *)
(* <tag><value>text</value></tag> or in the direct shape <tag>text</tag>;  *)
(* the content of the first nonDerivativeTable and derivativeTable         *)
(* elements as the sequence of their transaction blocks (null when the     *)
(* document has no such table); the footnote elements outside the blocks.  *)
(* A block carries, besides its tags, the footnote reference it holds (as  *)
(* the element <footnoteId id="F1"/> or as an attribute footnoteId="F1")   *)
(* and the footnote elements that lie inside the block itself.             *)
(* A date is written as its day number.                                    *)
(***************************************************************************)
Digits == <<"0","1","2","3","4","5","6","7","8","9">>

IsDigit(c) == \E k \in 1..10 : Digits[k] = c

DigitValue(c) == (CHOOSE k \in 1..10 : Digits[k] = c) - 1

IsSpace(c) == c \in {" ", "\n", "\t"}

\* String.prototype.trim
trim(s) ==
    IF \A i \in 1..Len(s) : IsSpace(s[i]) THEN <<>>
    ELSE LET first == CHOOSE i \in 1..Len(s) :
                        ~IsSpace(s[i]) /\ \A j \in 1..(i - 1) : IsSpace(s[j])
             last == CHOOSE i \in 1..Len(s) :
                        ~IsSpace(s[i]) /\ \A j \in (i + 1)..Len(s) : IsSpace(s[j])
         IN  SubSeq(s, first, last)

\* The longest prefix of s made of digits.
LeadingDigits(s) ==
    LET n == CHOOSE k \in 0..Len(s) :
                /\ \A i \in 1..k : IsDigit(s[i])
                /\ (k = Len(s) \/ ~IsDigit(s[k + 1]))
    IN  SubSeq(s, 1, n)

RECURSIVE DigitsValue(_)
DigitsValue(ds) ==
    IF ds = <<>> THEN 0
    ELSE DigitsValue(SubSeq(ds, 1, Len(ds) - 1)) * 10 + DigitValue(ds[Len(ds)])

\* Number.parseFloat, in hundredths: leading white space is skipped, then an
\* optional sign, digits, and an optional point followed by digits are read;
\* whatever follows is ignored, and NaN is returned when no digit was read.
\* (The texts of this model carry at most two decimals and no exponent.)
parseFloat(str) ==
    LET s == IF \A i \in 1..Len(str) : IsSpace(str[i]) THEN <<>>
             ELSE SubSeq(str, CHOOSE i \in 1..Len(str) :
                                ~IsSpace(str[i]) /\ \A j \in 1..(i - 1) : IsSpace(str[j]),
                         Len(str))
        signed == s # <<>> /\ s[1] \in {"-", "+"}
        sign == IF s # <<>> /\ s[1] = "-" THEN -1 ELSE 1
        body == IF signed THEN Tail(s) ELSE s
        intPart == LeadingDigits(body)
        rest == SubSeq(body, Len(intPart) + 1, Len(body))
        fracPart == IF rest # <<>> /\ rest[1] = "." THEN LeadingDigits(Tail(rest))
                    ELSE <<>>
        frac2 == SubSeq(fracPart \o <<"0","0">>, 1, 2)
    IN  IF intPart = <<>> /\ fracPart = <<>> THEN NaN
        ELSE sign * (DigitsValue(intPart) * 100 + DigitsValue(frac2))

\* The float product a * b of two numbers in hundredths, in hundredths (the
\* numbers of this model have exact products).
Times(a, b) == (a \div 100) * b + ((a % 100) * b) \div 100

\* Form4Parser.extractText: the first occurrence in the wrapper shape when
\* there is one, otherwise the first occurrence, trimmed; null without any.
extractText(xml, tagName) ==
    LET occ == xml[tagName]
        wrapped == {i \in 1..Len(occ) : occ[i].shape = "value"}
    IN  IF wrapped # {}
        THEN Some(trim(occ[CHOOSE i \in wrapped : \A j \in wrapped : i <= j].text))
        ELSE IF occ # <<>> THEN Some(trim(occ[1].text))
        ELSE null

\* !str of a string | null: absent or empty.
Falsy(str) == str = null \/ str = Some(<<>>)

\* Form4Parser.extractAttribute(txXml, "footnoteId"): the value of an
\* attribute footnoteId="..." in the text of the block.  The element
\* <footnoteId id="F1"/> holds no such attribute.
extractAttribute(txXml, attrName) ==
    IF attrName = "footnoteId" /\ txXml.footnoteRef.form = "attribute"
    THEN Some(txXml.footnoteRef.id)
    ELSE null

\* Form4Parser.check10b51InFootnotes: the first footnote element with that
\* id in the text it is given, which is the text of the block.
check10b51InFootnotes(xml, footnoteId) ==
    IF footnoteId = null THEN FALSE
    ELSE LET hits == {i \in 1..Len(xml.footnotes) : xml.footnotes[i].id = footnoteId[1]}
         IN  IF hits = {} THEN FALSE
             ELSE LET match == xml.footnotes[CHOOSE i \in hits : \A j \in hits : i <= j]
                      footnoteText == toLowerCase(match.text)
                  IN  \/ includes(footnoteText, <<"1","0","b","5","-","1">>)
                      \/ includes(footnoteText, <<"1","0","b","5">>)

\* A parseTransactionElement that keeps every direction code.
parseTransactionElement_anyCode(txXml) ==
    LET transactionCode == extractText(txXml, "transactionCode")
        transactionDate == extractText(txXml, "transactionDate")
        sharesStr == extractText(txXml, "transactionShares")
        priceStr == extractText(txXml, "transactionPricePerShare")
        shares == parseFloat(sharesStr[1])
        price == parseFloat(priceStr[1])
        postSharesStr == extractText(txXml, "sharesOwnedFollowingTransaction")
        postShares == IF Falsy(postSharesStr) THEN 0 ELSE parseFloat(postSharesStr[1])
        ownershipCode == extractText(txXml, "directOrIndirectOwnership")
        footnoteId == extractAttribute(txXml, "footnoteId")
    IN  IF Falsy(transactionCode) THEN null
        ELSE IF Falsy(transactionDate) THEN null
        ELSE IF Falsy(sharesStr) \/ Falsy(priceStr) THEN null
        ELSE IF shares = NaN \/ price = NaN THEN null
        ELSE Some([transactionDate |-> transactionDate[1],
                   transactionCode |-> transactionCode[1],
                   shares |-> shares,
                   pricePerShare |-> price,
                   transactionValue |-> Times(shares, price),
                   postTransactionShares |-> postShares,
                   isDirectOwnership |-> (ownershipCode = Some(<<"D">>)),
                   is10b51 |-> check10b51InFootnotes(txXml, footnoteId)])

\* A parseTransactionElement that does not check the parsed numbers.
parseTransactionElement_noNaNCheck(txXml) ==
    LET transactionCode == extractText(txXml, "transactionCode")
        transactionDate == extractText(txXml, "transactionDate")
        sharesStr == extractText(txXml, "transactionShares")
        priceStr == extractText(txXml, "transactionPricePerShare")
        shares == parseFloat(sharesStr[1])
        price == parseFloat(priceStr[1])
        postSharesStr == extractText(txXml, "sharesOwnedFollowingTransaction")
        postShares == IF Falsy(postSharesStr) THEN 0 ELSE parseFloat(postSharesStr[1])
        ownershipCode == extractText(txXml, "directOrIndirectOwnership")
        footnoteId == extractAttribute(txXml, "footnoteId")
    IN  IF \/ Falsy(transactionCode)
           \/ /\ transactionCode[1] # TRANSACTION_CODE_BUY
              /\ transactionCode[1] # TRANSACTION_CODE_SELL
        THEN null
        ELSE IF Falsy(transactionDate) THEN null
        ELSE IF Falsy(sharesStr) \/ Falsy(priceStr) THEN null
        ELSE Some([transactionDate |-> transactionDate[1],
                   transactionCode |-> transactionCode[1],
                   shares |-> shares,
                   pricePerShare |-> price,
                   transactionValue |->
                        IF shares = NaN \/ price = NaN THEN NaN
                        ELSE Times(shares, price),
                   postTransactionShares |-> postShares,
                   isDirectOwnership |-> (ownershipCode = Some(<<"D">>)),
                   is10b51 |-> check10b51InFootnotes(txXml, footnoteId)])

\* Form4Parser.parseTransactionElement: null, or Some(TransactionInfo).
parseTransactionElement(txXml) ==
    LET transactionCode == extractText(txXml, "transactionCode")
        transactionDate == extractText(txXml, "transactionDate")
        sharesStr == extractText(txXml, "transactionShares")
        priceStr == extractText(txXml, "transactionPricePerShare")
        shares == parseFloat(sharesStr[1])
        price == parseFloat(priceStr[1])
        postSharesStr == extractText(txXml, "sharesOwnedFollowingTransaction")
        postShares == IF Falsy(postSharesStr) THEN 0 ELSE parseFloat(postSharesStr[1])
        ownershipCode == extractText(txXml, "directOrIndirectOwnership")
        footnoteId == extractAttribute(txXml, "footnoteId")
    IN  IF \/ Falsy(transactionCode)
           \/ /\ transactionCode[1] # TRANSACTION_CODE_BUY
              /\ transactionCode[1] # TRANSACTION_CODE_SELL
        THEN null
        ELSE IF Falsy(transactionDate) THEN null
        ELSE IF Falsy(sharesStr) \/ Falsy(priceStr) THEN null
        ELSE IF shares = NaN \/ price = NaN THEN null
        ELSE Some([transactionDate |-> transactionDate[1],
                   transactionCode |-> transactionCode[1],
                   shares |-> shares,
                   pricePerShare |-> price,
                   transactionValue |-> Times(shares, price),
                   postTransactionShares |-> postShares,
                   isDirectOwnership |-> (ownershipCode = Some(<<"D">>)),
                   is10b51 |-> check10b51InFootnotes(txXml, footnoteId)])

\* The loop of extractNonDerivativeTransactions / extractDerivativeTransactions
\* over the blocks of one table.
RECURSIVE parseBlocks(_)
parseBlocks(blocks) ==
    IF blocks = <<>> THEN <<>>
    ELSE parseTransactionElement(Head(blocks)) \o parseBlocks(Tail(blocks))

extractNonDerivativeTransactions(xml) ==
    IF xml.nonDerivativeTable = null THEN <<>>
    ELSE parseBlocks(xml.nonDerivativeTable[1])

extractDerivativeTransactions(xml) ==
    IF xml.derivativeTable = null THEN <<>>
    ELSE parseBlocks(xml.derivativeTable[1])

parseTransactions(xml) ==
    extractNonDerivativeTransactions(xml) \o extractDerivativeTransactions(xml)

\* cik.replace(/^0+/, "")
StripLeadingZeros(s) ==
    LET n == CHOOSE k \in 0..Len(s) :
                /\ \A i \in 1..k : s[i] = "0"
                /\ (k = Len(s) \/ s[k + 1] # "0")
    IN  SubSeq(s, n + 1, Len(s))

\* x || "" of a string | null
OrEmpty(str) == IF str = null THEN <<>> ELSE str[1]

\* x || undefined of a string | null
OrUndefined(str) == IF Falsy(str) THEN null ELSE str

parseIssuer(xml) ==
    [cik |-> StripLeadingZeros(OrEmpty(extractText(xml, "issuerCik"))),
     companyName |-> OrEmpty(extractText(xml, "issuerName")),
     ticker |-> OrUndefined(extractText(xml, "issuerTradingSymbol"))]

parseInsider(xml) ==
    [name |-> OrEmpty(extractText(xml, "rptOwnerName")),
     title |-> OrUndefined(extractText(xml, "officerTitle")),
     isDirector |-> extractText(xml, "isDirector") = Some(<<"1">>),
     isOfficer |-> extractText(xml, "isOfficer") = Some(<<"1">>),
     isTenPercentOwner |-> extractText(xml, "isTenPercentOwner") = Some(<<"1">>),
     isOther |-> extractText(xml, "isOther") = Some(<<"1">>)]

\* Form4Parser.parse
parse(xml, accessionNumber, filingDate) ==
    [accessionNumber |-> accessionNumber,
     filingDate |-> filingDate,
     issuer |-> parseIssuer(xml),
     insider |-> parseInsider(xml),
     transactions |-> parseTransactions(xml)]

(***************************************************************************)
(* The parser applied to documents drawn from bounded sets                 *)
(***************************************************************************)
\* One occurrence of a tag in the wrapper shape, in the direct shape.
Wrapped(text) == <<[shape |-> "value", text |-> text]>>
Direct(text) == <<[shape |-> "direct", text |-> text]>>

NoFootnoteRef == [form |-> "none", id |-> <<>>]
F1 == <<"F","1">>
F2 == <<"F","2">>

\* "Rule 10b5-1 plan", "10B5 PLAN", "a gift"
PlanText == <<"R","u","l","e"," ","1","0","b","5","-","1"," ","p","l","a","n">>
UpperPlanText == <<"1","0","B","5"," ","P","L","A","N">>
OtherText == <<"a"," ","g","i","f","t">>

TransactionBlock(code, date, shares, price, post, ownership, ref, notes) ==
    [transactionCode |-> code,
     transactionDate |-> date,
     transactionShares |-> shares,
     transactionPricePerShare |-> price,
     sharesOwnedFollowingTransaction |-> post,
     directOrIndirectOwnership |-> ownership,
     footnoteRef |-> ref,
     footnotes |-> notes]

Document(cik, name, symbol, owner, title, nonDeriv, deriv, notes) ==
    [issuerCik |-> cik,
     issuerName |-> name,
     issuerTradingSymbol |-> symbol,
     rptOwnerName |-> owner,
     officerTitle |-> title,
     isDirector |-> Direct(<<"0">>),
     isOfficer |-> Direct(<<"1">>),
     isTenPercentOwner |-> Direct(<<"0">>),
     isOther |-> Direct(<<"0">>),
     nonDerivativeTable |-> nonDeriv,
     derivativeTable |-> deriv,
     footnotes |-> notes]

MaxBlocks == 2

SeqsUpTo(S, n) == UNION {[1..k -> S] : k \in 0..n}

\* Blocks that differ in their direction code: P, S (wrapper shape), the
\* award code A, a lower-case p, " P" with white space, an empty code, none.
CodeFields ==
    {Direct(<<"P">>), Wrapped(<<"S">>), Direct(<<"A">>), Direct(<<"p">>),
     Direct(<<" ","P">>), Direct(<<>>), <<>>,
     Direct(<<"A">>) \o Wrapped(<<"S">>)}

CodeBlocks ==
    {TransactionBlock(c, Wrapped(<<"1","5">>), Wrapped(<<"5","0","0","0">>),
                      Wrapped(<<"1","0","0",".","0","0">>), Wrapped(<<"9","0","0">>),
                      Wrapped(<<"D">>), NoFootnoteRef, <<>>) : c \in CodeFields}

OrderBlocks ==
    {TransactionBlock(c, Wrapped(<<"1","5">>), Wrapped(<<"5","0","0","0">>),
                      Wrapped(<<"1","0","0",".","0","0">>), Wrapped(<<"9","0","0">>),
                      Wrapped(<<"D">>), NoFootnoteRef, <<>>) :
        c \in {Direct(<<"P">>), Wrapped(<<"S">>), Direct(<<"A">>)}}

DateFields == {<<>>, Wrapped(<<"1","5">>), Wrapped(<<" ">>)}
SharesFields ==
    {<<>>, Wrapped(<<"5","0","0","0">>), Wrapped(<<"0">>), Wrapped(<<"-","5">>),
     Wrapped(<<"x">>), Wrapped(<<"1","x">>), Direct(<<>>)}
PriceFields ==
    {<<>>, Wrapped(<<"1","0","0",".","0","0">>), Direct(<<"0">>), Wrapped(<<".","5">>),
     Wrapped(<<"x">>), Wrapped(<<>>)}
PostFields == {<<>>, Wrapped(<<"9","0","0">>), Wrapped(<<"x">>)}

RequiredBlocks ==
    {TransactionBlock(c, d, sh, pr, po, <<>>, NoFootnoteRef, <<>>) :
        c \in {Direct(<<"P">>), Wrapped(<<"S">>)}, d \in DateFields,
        sh \in SharesFields, pr \in PriceFields, po \in PostFields}

FootnoteRefs ==
    {NoFootnoteRef, [form |-> "element", id |-> F1], [form |-> "attribute", id |-> F1]}
FootnoteLists ==
    {<<>>, <<[id |-> F1, text |-> PlanText]>>, <<[id |-> F1, text |-> UpperPlanText]>>,
     <<[id |-> F1, text |-> OtherText]>>, <<[id |-> F2, text |-> PlanText]>>}

FootnoteBlocks ==
    {TransactionBlock(Direct(<<"P">>), Wrapped(<<"1","5">>), Wrapped(<<"5","0","0","0">>),
                      Wrapped(<<"1","0","0",".","0","0">>), Wrapped(<<"9","0","0">>),
                      Wrapped(<<"I">>), r, n) : r \in FootnoteRefs, n \in FootnoteLists}

TestDocument(nonDeriv, deriv, notes) ==
    Document(Direct(<<"0","0","1","2">>), Direct(<<"T","e","s","t">>), <<>>,
             Direct(<<"J","o","e">>), <<>>, nonDeriv, deriv, notes)

SampleDocuments ==
    {TestDocument(nd, dv, <<>>) :
        nd \in {null} \cup {Some(b) : b \in SeqsUpTo(OrderBlocks, MaxBlocks)},
        dv \in {null} \cup {Some(b) : b \in SeqsUpTo(OrderBlocks, MaxBlocks)}}
    \cup {TestDocument(Some(<<b>>), null, <<>>) : b \in CodeBlocks \cup RequiredBlocks}
    \cup {TestDocument(null, Some(<<b>>), <<>>) : b \in CodeBlocks}
    \cup {TestDocument(Some(<<b>>), null, n) : b \in FootnoteBlocks, n \in FootnoteLists}

ParserInit ==
    /\ xmlText \in {Some(d) : d \in SampleDocuments}
    /\ form4Data = null
    /\ ScorerIdle
    /\ PipelineIdle
    /\ DigestIdle

Parse ==
    /\ xmlText # null
    /\ form4Data = null
    /\ form4Data' = Some(parse(xmlText[1], A1, <<"1","6">>))
    /\ UNCHANGED <<xmlText, scorerVars, pipelineVars, digestVars>>

ParserNext == Parse

ParserSpec == ParserInit /\ [][ParserNext]_vars

\* The blocks of a document: those of the direct-holdings table, then those
\* of the derivative-holdings table.
BlocksOf(doc) ==
    (IF doc.nonDerivativeTable = null THEN <<>> ELSE doc.nonDerivativeTable[1])
    \o (IF doc.derivativeTable = null THEN <<>> ELSE doc.derivativeTable[1])

CodeOf(block) == extractText(block, "transactionCode")

IsBuyOrSell(block) ==
    CodeOf(block) \in {Some(TRANSACTION_CODE_BUY), Some(TRANSACTION_CODE_SELL)}

(***************************************************************************)
(* C6: a transaction block of either table whose direction code is absent  *)
(* or is not exactly P or S contributes no entry; every entry of the       *)
(* parser's transactions has code P or S; the kept blocks appear in        *)
(* document order, the direct-holdings table first.                        *)
(***************************************************************************)
RECURSIVE KeptInOrder(_)
KeptInOrder(blocks) ==
    IF blocks = <<>> THEN <<>>
    ELSE (IF IsBuyOrSell(Head(blocks)) THEN <<CodeOf(Head(blocks))[1]>> ELSE <<>>)
         \o KeptInOrder(Tail(blocks))

\* In the documents of the order and code families every block has its date,
\* quantity and price, so a block is kept iff its code is P or S.
AllRequiredPresent(doc) ==
    \A i \in 1..Len(BlocksOf(doc)) :
        LET b == BlocksOf(doc)[i]
        IN  /\ ~Falsy(extractText(b, "transactionDate"))
            /\ ~Falsy(extractText(b, "transactionShares"))
            /\ ~Falsy(extractText(b, "transactionPricePerShare"))
            /\ parseFloat(extractText(b, "transactionShares")[1]) # NaN
            /\ parseFloat(extractText(b, "transactionPricePerShare")[1]) # NaN

C6_OnlyBuySell ==
    form4Data # null =>
        LET txs == form4Data[1].transactions
            blocks == BlocksOf(xmlText[1])
        IN  /\ \A i \in 1..Len(txs) :
                txs[i].transactionCode \in {TRANSACTION_CODE_BUY, TRANSACTION_CODE_SELL}
            /\ Len(txs) <= Cardinality({i \in 1..Len(blocks) : IsBuyOrSell(blocks[i])})
            /\ ((\A i \in 1..Len(blocks) : ~IsBuyOrSell(blocks[i])) => txs = <<>>)
            /\ (AllRequiredPresent(xmlText[1]) =>
                    [i \in 1..Len(txs) |-> txs[i].transactionCode] = KeptInOrder(blocks))

\* A document with an award block followed by a buy in the direct table and
\* a sale in the derivative table has been parsed into the buy, then the sale.
C6_Witness ==
    /\ form4Data # null
    /\ xmlText[1].nonDerivativeTable # null
    /\ xmlText[1].derivativeTable # null
    /\ Len(xmlText[1].nonDerivativeTable[1]) = 2
    /\ CodeOf(xmlText[1].nonDerivativeTable[1][1]) = Some(<<"A">>)
    /\ CodeOf(xmlText[1].nonDerivativeTable[1][2]) = Some(<<"P">>)
    /\ Len(xmlText[1].derivativeTable[1]) = 1
    /\ CodeOf(xmlText[1].derivativeTable[1][1]) = Some(<<"S">>)
    /\ Len(form4Data[1].transactions) = 2
    /\ form4Data[1].transactions[1].transactionCode = <<"P">>
    /\ form4Data[1].transactions[2].transactionCode = <<"S">>

(***************************************************************************)
(* C7: for a transaction block that carries a footnote reference, the      *)
(* parsed plan flag is true iff a footnote with the referenced identifier  *)
(* exists anywhere in the document (inside or outside the block) and its   *)
(* lower-cased text contains '10b5-1' or '10b5'; with no reference or no   *)
(* matching footnote the flag is false.                                    *)
(***************************************************************************)
CitesPlan(text) ==
    \/ includes(toLowerCase(text), <<"1","0","b","5","-","1">>)
    \/ includes(toLowerCase(text), <<"1","0","b","5">>)

PlanFlagExpected(doc, block) ==
    /\ block.footnoteRef.form # "none"
    /\ \E notes \in {block.footnotes, doc.footnotes} :
        \E i \in 1..Len(notes) :
            notes[i].id = block.footnoteRef.id /\ CitesPlan(notes[i].text)

C7_PlanFlagFromFootnotes ==
    (/\ form4Data # null
     /\ Len(BlocksOf(xmlText[1])) = 1
     /\ Len(form4Data[1].transactions) = 1)
    => form4Data[1].transactions[1].is10b51
            = PlanFlagExpected(xmlText[1], BlocksOf(xmlText[1])[1])

(***************************************************************************)
(* C8: a buy/sell block is discarded entirely whenever its event date,     *)
(* quantity or unit price is missing or its quantity or unit price does    *)
(* not parse as a number; a buy/sell block with all three present and      *)
(* parseable yields exactly one entry, whose post-event holdings are 0     *)
(* when that field is absent.                                              *)
(***************************************************************************)
Complete(block) ==
    /\ ~Falsy(extractText(block, "transactionDate"))
    /\ ~Falsy(extractText(block, "transactionShares"))
    /\ ~Falsy(extractText(block, "transactionPricePerShare"))
    /\ parseFloat(extractText(block, "transactionShares")[1]) # NaN
    /\ parseFloat(extractText(block, "transactionPricePerShare")[1]) # NaN

Director == <<"D","i","r","e","c","t","o","r">>
CEO == <<"C","E","O">>
ChairmanOfTheBoard ==
    <<"C","h","a","i","r","m","a","n"," ","o","f"," ","t","h","e"," ","B","o","a","r","d">>
VicePresident == <<"V","i","c","e"," ","P","r","e","s","i","d","e","n","t">>

SampleTitles ==
    {null, Some(<<>>), Some(Director), Some(CEO), Some(<<"c","f","o">>),
     Some(ChairmanOfTheBoard), Some(VicePresident)}

\* 0, 5,000, 10,000, 100,000, 250,000, 500,000, 1,000,000 and 10,000,000
SampleValues ==
    {0, 500000, 1000000, 10000000, 25000000, 50000000, 100000000, 1000000000}

ScoreInputs ==
    [transactionCode : {TRANSACTION_CODE_BUY, TRANSACTION_CODE_SELL},
     transactionValue : SampleValues,
     insiderTitle : SampleTitles,
     isFirstActivityIn180Days : {null, Some(TRUE), Some(FALSE)},
     additionalInsidersInCluster : {null, Some(0), Some(1), Some(2)}]

SampleScores == {-720, -500, -490, -400, 0, 50, 100, 200, 490, 499, 500, 510, 650}
SampleAlertValues ==
    {0, 10000, 3000000, 10000000, 24000000, 24999999, 25000000, 30000000, 50000000}

AlertArgs == [signalScore : SampleScores, transactionValue : SampleAlertValues]

ScoreInit ==
    /\ ParserIdle
    /\ PipelineIdle
    /\ DigestIdle
    /\ scoreResult = null
    /\ alertResult = null
    /\ \/ (scoreInput \in {Some(i) : i \in ScoreInputs} /\ alertArgs = null)
       \/ (scoreInput = null /\ alertArgs \in {Some(a) : a \in AlertArgs})

Score ==
    /\ scoreInput # null
    /\ scoreResult = null
    /\ scoreResult' = Some(calculateSignalScore(scoreInput[1]))
    /\ UNCHANGED <<scoreInput, alertArgs, alertResult, parserVars, pipelineVars, digestVars>>

Route ==
    /\ alertArgs # null
    /\ alertResult = null
    /\ alertResult' =
            Some(shouldTriggerUrgentAlert(alertArgs[1].signalScore,
                                          alertArgs[1].transactionValue))
    /\ UNCHANGED <<scoreInput, scoreResult, alertArgs, parserVars, pipelineVars, digestVars>>

ScoreNext == Score \/ Route

ScoreSpec == ScoreInit /\ [][ScoreNext]_vars

(***************************************************************************)
(* C9: calculateSignalScore returns (Base + FirstActivityBonus +           *)
(* ClusterBonus) x SizeFactor x RoleFactor rounded to 2 decimals, with     *)
(* Base +1 for a buy and -1 for a sell, FirstActivityBonus 1 iff the flag  *)
(* is set, ClusterBonus the given count (0 when absent), RoleFactor 1.5    *)
(* for an executive title and 1.0 otherwise; buy 100,000 non-executive     *)
(* without bonuses scores 1.0, sell 1,000,000 executive -3.0, buy          *)
(* 10,000,000 executive 4.5, buy 100,000 non-executive with cluster count  *)
(* 2 scores 3.0.                                                           *)
(***************************************************************************)
NoBonus(in) ==
    /\ in.isFirstActivityIn180Days # Some(TRUE)
    /\ in.additionalInsidersInCluster \in {null, Some(0)}

C10_UrgentIffEither ==
    alertResult # null =>
        LET score == alertArgs[1].signalScore
            totalValue == alertArgs[1].transactionValue
        IN  /\ alertResult[1] =
                    (\/ score >= URGENT_ALERT_SCORE_THRESHOLD
                     \/ score <= -URGENT_ALERT_SCORE_THRESHOLD
                     \/ totalValue >= URGENT_ALERT_VALUE_THRESHOLD)
            /\ (score = 50 /\ totalValue = 25000000 => alertResult[1] = TRUE)
            /\ (score = -500 /\ totalValue = 10000000 => alertResult[1] = TRUE)
            /\ (score = 490 /\ totalValue = 24000000 => alertResult[1] = FALSE)

\* The value threshold alone has made a transaction of score 0.5 urgent.
C10_Witness ==
    /\ alertResult = Some(TRUE)
    /\ alertArgs[1].signalScore = 50
    /\ alertArgs[1].transactionValue = 25000000

(***************************************************************************)
(* C11: the scorer is total on zero and small values: for every            *)
(* totalValue with 0 <= totalValue <= 100,000, exactly 0 included,         *)
(* SizeFactor is exactly 1.0 and the score is the finite number            *)
(* (Base + FirstActivityBonus + ClusterBonus) x RoleFactor; SizeFactor is  *)
(* never below 1.0 for a totalValue >= 0.                                  *)
(***************************************************************************)
C11_TotalOnSmallValues ==
    (scoreInput # null /\ scoreResult # null /\ scoreInput[1].transactionValue >= 0) =>
        LET in == scoreInput[1]
            out == scoreResult[1]
            base == IF in.transactionCode = TRANSACTION_CODE_BUY THEN 1 ELSE -1
            first == IF in.isFirstActivityIn180Days = Some(TRUE) THEN 1 ELSE 0
            cluster == IF in.additionalInsidersInCluster = null THEN 0
                       ELSE in.additionalInsidersInCluster[1]
            role == IF isExecutiveRole(in.insiderTitle) THEN 150 ELSE 100
        IN  /\ out.breakdown.sizeMultiplier # NaN
            /\ out.breakdown.sizeMultiplier >= 100
            /\ in.transactionValue <= 10000000 =>
                    /\ out.breakdown.sizeMultiplier = 100
                    /\ out.score # NaN
                    /\ out.score = (base + first + cluster) * role

\* A first-activity buy of value 0 by a CEO has scored 3.0.
C11_Witness ==
    /\ scoreInput # null /\ scoreResult # null
    /\ scoreInput[1].transactionValue = 0
    /\ scoreInput[1].transactionCode = TRANSACTION_CODE_BUY
    /\ scoreInput[1].insiderTitle = Some(CEO)
    /\ scoreInput[1].isFirstActivityIn180Days = Some(TRUE)
    /\ scoreInput[1].additionalInsidersInCluster = null
    /\ scoreResult[1].score = 300

(***************************************************************************)
(* The store (sql/schema/insiders.ts, sql/queries/insiders)                *)
(*                                                                         *)
(* A table is the set of its rows.  Rows are never deleted, so the id      *)
(* generated for a new row is the next unused number of its table.  The    *)
(* decimal columns hold the numbers of this model exactly; the audit       *)
(* columns createdAt and updatedAt are left out.  A date column holds the  *)
(* day number its text denotes.                                            *)
(***************************************************************************)
\* new Date(text) is a valid date
IsDateText(s) == s # <<>> /\ \A i \in 1..Len(s) : IsDigit(s[i])

\* The day a valid date text denotes ("015" and "15" are the same day).
DateOf(s) == DigitsValue(s)

FIRST_ACTIVITY_DAYS == 180
CLUSTER_DETECTION_DAYS == 7

\* upsertIssuer: insert, or on conflict on cik update ticker and companyName.
\* Returns the table afterwards and the row.
upsertIssuer(table, data) ==
    LET hit == {row \in table : row.cik = data.cik}
        row == IF hit = {}
               THEN [id |-> Cardinality(table) + 1,
                     cik |-> data.cik,
                     ticker |-> data.ticker,
                     companyName |-> data.companyName]
               ELSE [(CHOOSE old \in hit : TRUE) EXCEPT
                        !.ticker = data.ticker,
                        !.companyName = data.companyName]
    IN  [table |-> (table \ hit) \cup {row}, row |-> row]

\* upsertInsider: insert, or on conflict on (name, issuerId) update title.
upsertInsider(table, data) ==
    LET hit == {row \in table : row.name = data.name /\ row.issuerId = data.issuerId}
        row == IF hit = {}
               THEN [id |-> Cardinality(table) + 1,
                     issuerId |-> data.issuerId,
                     name |-> data.name,
                     title |-> data.title]
               ELSE [(CHOOSE old \in hit : TRUE) EXCEPT !.title = data.title]
    IN  [table |-> (table \ hit) \cup {row}, row |-> row]

\* The columns of the unique index transactions_dedupe.
NaturalKey(row) ==
    <<row.filingAccession, row.insiderId, row.transactionDate, row.shares, row.price>>

\* An upsertTransaction that inserts a row whatever the table holds.
upsertTransaction_alwaysInsert(table, data) ==
    LET row == [id |-> Cardinality(table) + 1] @@ data
    IN  [table |-> table \cup {row}, row |-> row, created |-> TRUE]

\* upsertTransaction: insert, or on conflict on the natural key update
\* transactionCode, transactionValue, postTransactionShares,
\* isDirectOwnership, is10b51 and signalScore.  created tells which.
upsertTransaction(table, data) ==
    LET hit == {row \in table : NaturalKey(row) = NaturalKey(data)}
        row == IF hit = {}
               THEN [id |-> Cardinality(table) + 1] @@ data
               ELSE [(CHOOSE old \in hit : TRUE) EXCEPT
                        !.transactionCode = data.transactionCode,
                        !.transactionValue = data.transactionValue,
                        !.postTransactionShares = data.postTransactionShares,
                        !.isDirectOwnership = data.isDirectOwnership,
                        !.is10b51 = data.is10b51,
                        !.signalScore = data.signalScore]
    IN  [table |-> (table \ hit) \cup {row}, row |-> row, created |-> hit = {}]

\* A recordSlackAlert over a table that holds one record at most for a
\* transaction and an alert type: a second insert is rejected.
recordSlackAlert_unique(table, data) ==
    IF \E alert \in table : /\ alert.transactionId = data.transactionId
                            /\ alert.alertType = data.alertType
    THEN [table |-> table,
          row |-> CHOOSE alert \in table : /\ alert.transactionId = data.transactionId
                                           /\ alert.alertType = data.alertType]
    ELSE LET row == [id |-> Cardinality(table) + 1] @@ data
         IN  [table |-> table \cup {row}, row |-> row]

\* recordSlackAlert: a plain insert (slack_alerts has no unique index).
recordSlackAlert(table, data) ==
    LET row == [id |-> Cardinality(table) + 1] @@ data
    IN  [table |-> table \cup {row}, row |-> row]

\* A getInsiderLastTransactionDate that looks strictly before beforeDate.
getInsiderLastTransactionDate_strictlyBefore(table, insiderId, beforeDate) ==
    LET dates == {row.transactionDate : row \in
                    {t \in table : t.insiderId = insiderId /\ t.transactionDate < beforeDate}}
    IN  IF dates = {} THEN null
        ELSE Some(CHOOSE d \in dates : \A e \in dates : e <= d)

\* getInsiderLastTransactionDate: the latest transactionDate of the insider
\* that is <= beforeDate, or null.
getInsiderLastTransactionDate(table, insiderId, beforeDate) ==
    LET dates == {row.transactionDate : row \in
                    {t \in table : t.insiderId = insiderId /\ t.transactionDate <= beforeDate}}
    IN  IF dates = {} THEN null
        ELSE Some(CHOOSE d \in dates : \A e \in dates : e <= d)

\* A getDistinctInsiderCountInCluster with the ends of the range left out.
getDistinctInsiderCountInCluster_exclusive(table, issuerId, startDate, endDate, excludeInsiderId) ==
    Cardinality({row.insiderId : row \in
        {t \in table : /\ t.issuerId = issuerId
                       /\ t.transactionDate > startDate
                       /\ t.transactionDate < endDate
                       /\ t.insiderId # excludeInsiderId}})

\* getDistinctInsiderCountInCluster: COUNT(DISTINCT insiderId) over the
\* issuer's rows dated within [startDate, endDate], the excluded insider's
\* rows left out.
getDistinctInsiderCountInCluster(table, issuerId, startDate, endDate, excludeInsiderId) ==
    Cardinality({row.insiderId : row \in
        {t \in table : /\ t.issuerId = issuerId
                       /\ t.transactionDate >= startDate
                       /\ t.transactionDate <= endDate
                       /\ t.insiderId # excludeInsiderId}})

\* getInsiderPreviousTransaction: a row of the insider dated <= beforeDate
\* with the latest such date; the order among rows of one date is not
\* determined, so this is the set of rows the query may return (null when
\* there is no row).
getInsiderPreviousTransaction(table, insiderId, beforeDate) ==
    LET rows == {t \in table : t.insiderId = insiderId /\ t.transactionDate <= beforeDate}
        latest == {t \in rows : \A u \in rows : u.transactionDate <= t.transactionDate}
    IN  IF rows = {} THEN {null} ELSE {Some(t) : t \in latest}

\* A hasSlackAlertForTransaction that never finds an alert.
hasSlackAlertForTransaction_never(table, transactionId, alertType) == FALSE

\* hasSlackAlertForTransaction
hasSlackAlertForTransaction(table, transactionId, alertType) ==
    \E alert \in table :
        alert.transactionId = transactionId /\ alert.alertType = alertType

(***************************************************************************)
(* Form4Processor (functions/form4-processor.ts)                           *)
(*                                                                         *)
(* An invocation of process() advances one await at a time; pc names the   *)
(* call it is about to make.  The synchronous code between two awaits      *)
(* belongs to the step of the first.                                       *)
(***************************************************************************)
\* The filing the loop of process() is at.
Filing(s) == s.filings[s.index]

\* form4Data.transactions.filter(code is P or S)
relevantTransactions(data) ==
    SelectSeq(data.transactions,
              LAMBDA tx : \/ tx.transactionCode = TRANSACTION_CODE_BUY
                          \/ tx.transactionCode = TRANSACTION_CODE_SELL)

\* The transaction the loop of processSingleFiling is at.
TxInfo(s) == relevantTransactions(s.form4Data[1])[s.txIndex]

\* The locals of processSingleFiling and below, dropped.
Cleared(s) ==
    [s EXCEPT !.xmlContent = null, !.form4Data = null, !.issuer = null,
              !.insider = null, !.txIndex = 0,
              !.isFirstActivityIn180Days = null,
              !.additionalInsidersInCluster = null,
              !.transaction = null, !.previousTx = null, !.saved = <<>>,
              !.sends = <<>>, !.before = null]

\* A loop over the filings from the last to the first.
NextFiling_reversed(s) ==
    IF s.index = 0 /\ s.filings # <<>>
    THEN [Cleared(s) EXCEPT !.index = Len(s.filings), !.pc = "fetchForm4XML"]
    ELSE IF s.index > 1
    THEN [Cleared(s) EXCEPT !.index = s.index - 1, !.pc = "fetchForm4XML"]
    ELSE [Cleared(s) EXCEPT !.pc = "return"]

\* for (const filing of filings): on to the next filing, or out of the loop
\* to return stats.
NextFiling(s) ==
    IF s.index < Len(s.filings)
    THEN [Cleared(s) EXCEPT !.index = s.index + 1, !.pc = "fetchForm4XML"]
    ELSE [Cleared(s) EXCEPT !.pc = "return"]

\* processSingleFiling has returned: stats.filingsProcessed++
FilingDone(s) ==
    NextFiling([s EXCEPT !.stats.filingsProcessed = @ + 1,
                         !.completed = Some([accessionNumber |-> Filing(s).accessionNumber,
                                             xml |-> s.xmlContent[1],
                                             saved |-> s.saved,
                                             sends |-> s.sends,
                                             before |-> s.before[1]])])

\* for (const txInfo of relevantTransactions): on to the next transaction, or
\* out of processSingleFiling.
NextTransaction(s) ==
    IF s.txIndex < Len(relevantTransactions(s.form4Data[1]))
    THEN [s EXCEPT !.txIndex = s.txIndex + 1, !.pc = "checkFirstActivity",
                   !.isFirstActivityIn180Days = null,
                   !.additionalInsidersInCluster = null,
                   !.transaction = null, !.previousTx = null]
    ELSE FilingDone(s)

\* A per-filing catch that gives up the rest of the list.
Caught_abortsBatch(s, errorMessage) ==
    [Cleared([s EXCEPT !.stats.errors =
                Append(@, [filing |-> Filing(s).accessionNumber,
                           error |-> errorMessage])])
        EXCEPT !.pc = "return"]

\* A per-filing catch that also counts the filing as processed.
Caught_countsProcessed(s, errorMessage) ==
    NextFiling([s EXCEPT !.stats.errors =
                    Append(@, [filing |-> Filing(s).accessionNumber,
                               error |-> errorMessage]),
                         !.stats.filingsProcessed = @ + 1])

\* The catch around processSingleFiling: one entry in stats.errors, then the
\* loop goes on.
Caught(s, errorMessage) ==
    NextFiling([s EXCEPT !.stats.errors =
                    Append(@, [filing |-> Filing(s).accessionNumber,
                               error |-> errorMessage])])

\* A call made for the current filing throws: the throw is noted among what
\* the invocation has met, and control passes to the catch.
Throw(s, errorMessage) ==
    Caught([s EXCEPT !.done.thrown =
                Append(@, [filing |-> Filing(s).accessionNumber,
                           error |-> errorMessage])],
           errorMessage)

FETCH_FILINGS == <<"F","E","T","C","H","_","F","I","L","I","N","G","S">>

\* An outer catch that lets the failure out of process().
FetchFailed_rethrows(s, errorMessage) == [s EXCEPT !.pc = "threw"]

\* The outer catch of process(): one entry under the id FETCH_FILINGS, then
\* return stats.
FetchFailed(s, errorMessage) ==
    [s EXCEPT !.stats.errors =
                    Append(@, [filing |-> FETCH_FILINGS, error |-> errorMessage]),
              !.pc = "return"]

\* Form4Processor.checkFirstActivity, after the lookup.
checkFirstActivity(table, insiderId, transactionDate) ==
    LET cutoffDate == DateOf(transactionDate) - FIRST_ACTIVITY_DAYS
        lastTxDate == getInsiderLastTransactionDate(table, insiderId,
                                                    DateOf(transactionDate))
    IN  lastTxDate = null \/ lastTxDate[1] < cutoffDate

\* A getClusterBonus that never finds another insider.
getClusterBonus_none(table, issuerId, insiderId, transactionDate) == 0

\* Form4Processor.getClusterBonus
getClusterBonus(table, issuerId, insiderId, transactionDate) ==
    LET startDate == DateOf(transactionDate) - CLUSTER_DETECTION_DAYS
        endDate == DateOf(transactionDate) + CLUSTER_DETECTION_DAYS
        count == getDistinctInsiderCountInCluster(table, issuerId, startDate,
                                                  endDate, insiderId)
    IN  IF count > 0 THEN count ELSE 0

\* The ScoreInput processTransaction builds.
ScoreInputOf(s) ==
    [transactionCode |-> TxInfo(s).transactionCode,
     transactionValue |-> TxInfo(s).transactionValue,
     insiderTitle |-> s.form4Data[1].insider.title,
     isFirstActivityIn180Days |-> s.isFirstActivityIn180Days,
     additionalInsidersInCluster |-> s.additionalInsidersInCluster]

\* The row processTransaction hands to upsertTransaction.
TransactionData(s) ==
    [filingAccession |-> s.form4Data[1].accessionNumber,
     insiderId |-> s.insider[1].id,
     issuerId |-> s.issuer[1].id,
     transactionDate |-> DateOf(TxInfo(s).transactionDate),
     transactionCode |-> TxInfo(s).transactionCode,
     shares |-> TxInfo(s).shares,
     price |-> TxInfo(s).pricePerShare,
     transactionValue |-> TxInfo(s).transactionValue,
     postTransactionShares |-> TxInfo(s).postTransactionShares,
     isDirectOwnership |-> TxInfo(s).isDirectOwnership,
     is10b51 |-> TxInfo(s).is10b51,
     signalScore |-> calculateSignalScore(ScoreInputOf(s)).score]

(***************************************************************************)
(* The outside: the SEC feed, the documents it serves, the Slack webhook   *)
(***************************************************************************)
Entry1 == [accessionNumber |-> A1, cik |-> <<"1","2">>, filingDate |-> <<"2","1","0">>]
Entry2 == [accessionNumber |-> A2, cik |-> <<"1","2">>, filingDate |-> <<"2","1","1">>]
Entry3 == [accessionNumber |-> A3, cik |-> <<"1","2">>, filingDate |-> <<"2","1","2">>]
Entry4 == [accessionNumber |-> A4, cik |-> <<"1","2">>, filingDate |-> <<"2","1","3">>]

\* The lists fetchRecentForm4Filings may return.
FilingLists == {<<>>, <<Entry1>>, <<Entry1, Entry2>>, <<Entry2, Entry1>>}

\* Joe, CEO of issuer 12, buys 5,000 at 100.00 on day 200 (value 500,000)
\* and sells 100 at 50.00 on day 201 (value 5,000).
JoeTrades ==
    Document(Direct(<<"0","0","1","2">>), Direct(<<"T","e","s","t">>),
             Direct(<<"T","S","T">>), Direct(<<"J","o","e">>), Direct(CEO),
             Some(<<TransactionBlock(Wrapped(<<"P">>), Wrapped(<<"2","0","0">>),
                        Wrapped(<<"5","0","0","0">>),
                        Wrapped(<<"1","0","0",".","0","0">>),
                        Wrapped(<<"9","0","0","0">>), Wrapped(<<"D">>),
                        NoFootnoteRef, <<>>),
                    TransactionBlock(Wrapped(<<"S">>), Wrapped(<<"2","0","1">>),
                        Wrapped(<<"1","0","0">>), Wrapped(<<"5","0",".","0","0">>),
                        Wrapped(<<"8","9","0","0">>), Wrapped(<<"D">>),
                        NoFootnoteRef, <<>>)>>),
             null, <<>>)

\* The same filing amended: the holdings after the buy and its ownership
\* mode are restated.
JoeTradesAmended ==
    [JoeTrades EXCEPT
        !.nonDerivativeTable[1][1].sharesOwnedFollowingTransaction =
            Wrapped(<<"9","5","0","0">>),
        !.nonDerivativeTable[1][1].directOrIndirectOwnership = Wrapped(<<"I">>)]

\* Ann, director of the same issuer, buys 2,500 at 100.00 on day 208
\* (value 250,000): 7 days after Joe's sale, 8 days after his purchase.
AnnBuys ==
    Document(Direct(<<"1","2">>), Direct(<<"T","e","s","t">>),
             Direct(<<"T","S","T">>), Direct(<<"A","n","n">>), Direct(Director),
             Some(<<TransactionBlock(Wrapped(<<"P">>), Wrapped(<<"2","0","8">>),
                        Wrapped(<<"2","5","0","0">>),
                        Wrapped(<<"1","0","0",".","0","0">>),
                        Wrapped(<<"2","5","0","0">>), Wrapped(<<"D">>),
                        NoFootnoteRef, <<>>)>>),
             null, <<>>)

\* Bob, director of the same issuer, reports a purchase of 0 shares at
\* 100.00 on day 205, holding 300 afterwards.
BobReportsNone ==
    Document(Direct(<<"1","2">>), Direct(<<"T","e","s","t">>),
             Direct(<<"T","S","T">>), Direct(<<"B","o","b">>), Direct(Director),
             Some(<<TransactionBlock(Wrapped(<<"P">>), Wrapped(<<"2","0","5">>),
                        Wrapped(<<"0">>),
                        Wrapped(<<"1","0","0",".","0","0">>),
                        Wrapped(<<"3","0","0">>), Wrapped(<<"D">>),
                        NoFootnoteRef, <<>>)>>),
             null, <<>>)

\* Joe, CEO, buys 2,000 at 100.00 on day 205 (value 200,000, below the
\* value threshold of the urgent alert), 3 days before Ann's purchase.
JoeBuysLess ==
    Document(Direct(<<"1","2">>), Direct(<<"T","e","s","t">>),
             Direct(<<"T","S","T">>), Direct(<<"J","o","e">>), Direct(CEO),
             Some(<<TransactionBlock(Wrapped(<<"P">>), Wrapped(<<"2","0","5">>),
                        Wrapped(<<"2","0","0","0">>),
                        Wrapped(<<"1","0","0",".","0","0">>),
                        Wrapped(<<"2","0","0","0">>), Wrapped(<<"D">>),
                        NoFootnoteRef, <<>>)>>),
             null, <<>>)

\* The documents fetchForm4XML may return for an accession number.
Served(accessionNumber) ==
    IF accessionNumber = A1 THEN {JoeTrades, JoeTradesAmended}
    ELSE IF accessionNumber = A2 THEN {AnnBuys}
    ELSE IF accessionNumber = A3 THEN {BobReportsNone}
    ELSE {JoeBuysLess}

\* Webhook urls the deployment may be configured with (empty: none).
WebhookUrls == {<<>>, <<"h","o","o","k">>}

MaxRuns == 2

Init ==
    /\ ParserIdle
    /\ ScorerIdle
    /\ DigestIdle
    /\ feed = FilingLists
    /\ issuers = {} /\ insiders = {} /\ transactions = {} /\ slackAlerts = {}
    /\ webhookUrl \in WebhookUrls
    /\ notifications = <<>>
    /\ run = [r \in Runners |-> IF r = "scheduled" THEN Locals("idle") ELSE Locals("off")]
    /\ started = 0
    /\ passes = [a \in Accessions |-> <<>>]

\* The last two elements of a sequence.
LastTwo(seq) == IF Len(seq) > 2 THEN SubSeq(seq, Len(seq) - 1, Len(seq)) ELSE seq

\* The invocation r goes on with locals s: the await just made is entered
\* in its log with the filing and the transaction it was made for, and a
\* filing completed in this step is entered in passes with the rows the
\* store then holds for it.
Advance(r, s) ==
    /\ run' = [run EXCEPT ![r] =
                IF run[r].pc = "idle" \/ s.pc = "idle"
                THEN [s EXCEPT !.completed = null]
                ELSE [s EXCEPT !.completed = null,
                               !.done.log = Append(@, [pc |-> run[r].pc,
                                                       index |-> run[r].index,
                                                       txIndex |-> run[r].txIndex])]]
    /\ passes' =
        IF s.completed = null THEN passes
        ELSE LET p == s.completed[1]
             IN  [passes EXCEPT ![p.accessionNumber] =
                    LastTwo(Append(@,
                        [xml |-> p.xml,
                         saved |-> p.saved,
                         sends |-> p.sends,
                         before |-> p.before,
                         after |-> [transactions |-> transactions',
                                    slackAlerts |-> slackAlerts'],
                         rows |-> {t \in transactions' :
                                    t.filingAccession = p.accessionNumber}]))]

\* process() is invoked.
StartRun(r) ==
    /\ run[r].pc = "idle"
    /\ started < MaxRuns
    /\ started' = started + 1
    /\ UNCHANGED <<parserVars, scorerVars, digestVars, feed, storeVars, webhookUrl, notifications>>
    /\ Advance(r, [Locals("fetchRecentForm4Filings") EXCEPT
                        !.entry = Some([transactions |-> transactions])])

\* await this.secClient.fetchRecentForm4Filings(filingCount)
FetchRecentForm4Filings(r) ==
    /\ run[r].pc = "fetchRecentForm4Filings"
    /\ UNCHANGED <<parserVars, scorerVars, digestVars, feed, storeVars, webhookUrl, notifications, started>>
    /\ \/ \E filings \in feed :
            Advance(r, NextFiling([run[r] EXCEPT !.filings = filings]))
       \/ Advance(r, FetchFailed([run[r] EXCEPT !.done.listFetchFailed = TRUE],
                                 "SEC EDGAR API error"))

\* await this.secClient.fetchForm4XML(...), then this.parser.parse(...)
FetchForm4XML(r) ==
    LET s == [run[r] EXCEPT !.done.documentFetches =
                                Append(@, Filing(run[r]).accessionNumber)]
    IN  /\ run[r].pc = "fetchForm4XML"
        /\ UNCHANGED <<parserVars, scorerVars, digestVars, feed, storeVars, webhookUrl, notifications, started>>
        /\ \/ \E xml \in Served(Filing(s).accessionNumber) :
                Advance(r, [s EXCEPT
                    !.before = Some([transactions |-> transactions,
                                     slackAlerts |-> slackAlerts]),
                    !.xmlContent = Some(xml),
                    !.form4Data = Some(parse(xml, Filing(s).accessionNumber,
                                             Filing(s).filingDate)),
                    !.pc = "upsertIssuer"])
           \/ Advance(r, Throw(s, "Failed to fetch Form 4 XML"))

\* await upsertIssuer(this.db, {...})
UpsertIssuer(r) ==
    LET s == run[r]
        data == [cik |-> s.form4Data[1].issuer.cik,
                 ticker |-> OrUndefined(s.form4Data[1].issuer.ticker),
                 companyName |-> s.form4Data[1].issuer.companyName]
        result == upsertIssuer(issuers, data)
    IN  /\ s.pc = "upsertIssuer"
        /\ UNCHANGED <<parserVars, scorerVars, digestVars, feed, webhookUrl, notifications, started>>
        /\ \/ /\ issuers' = result.table
              /\ UNCHANGED <<insiders, transactions, slackAlerts>>
              /\ Advance(r, [s EXCEPT !.issuer = Some(result.row),
                                      !.done.issuerUpserts = @ + 1,
                                      !.pc = "upsertInsider"])
           \/ /\ UNCHANGED storeVars
              /\ Advance(r, Throw(s, "upsertIssuer failed"))

\* await upsertInsider(this.db, {...}), then the filter of the transactions
UpsertInsider(r) ==
    LET s == run[r]
        data == [issuerId |-> s.issuer[1].id,
                 name |-> s.form4Data[1].insider.name,
                 title |-> OrUndefined(s.form4Data[1].insider.title)]
        result == upsertInsider(insiders, data)
        s1 == [s EXCEPT !.insider = Some(result.row), !.done.insiderUpserts = @ + 1]
    IN  /\ s.pc = "upsertInsider"
        /\ UNCHANGED <<parserVars, scorerVars, digestVars, feed, webhookUrl, notifications, started>>
        /\ \/ /\ insiders' = result.table
              /\ UNCHANGED <<issuers, transactions, slackAlerts>>
              /\ Advance(r, NextTransaction(s1))
           \/ /\ UNCHANGED storeVars
              /\ Advance(r, Throw(s, "upsertInsider failed"))

\* await this.checkFirstActivity(insiderId, txInfo.transactionDate): the
\* cutoff date is computed first (toISOString throws on an invalid date),
\* then the lookup is awaited.
CheckFirstActivity(r) ==
    LET s == run[r]
    IN  /\ s.pc = "checkFirstActivity"
        /\ UNCHANGED <<parserVars, scorerVars, digestVars, feed, storeVars, webhookUrl, notifications, started>>
        /\ IF ~IsDateText(TxInfo(s).transactionDate)
           THEN Advance(r, Throw(s, "Invalid time value"))
           ELSE \/ Advance(r, [s EXCEPT
                    !.isFirstActivityIn180Days =
                        Some(checkFirstActivity(transactions, s.insider[1].id,
                                                TxInfo(s).transactionDate)),
                    !.pc = "getClusterBonus"])
                \/ Advance(r, Throw(s, "getInsiderLastTransactionDate failed"))

\* await this.getClusterBonus(issuerId, insiderId, txInfo.transactionDate)
GetClusterBonus(r) ==
    LET s == run[r]
    IN  /\ s.pc = "getClusterBonus"
        /\ UNCHANGED <<parserVars, scorerVars, digestVars, feed, storeVars, webhookUrl, notifications, started>>
        /\ \/ Advance(r, [s EXCEPT
                    !.additionalInsidersInCluster =
                        Some(getClusterBonus(transactions, s.issuer[1].id,
                                             s.insider[1].id,
                                             TxInfo(s).transactionDate)),
                    !.pc = "upsertTransaction"])
           \/ Advance(r, Throw(s, "getDistinctInsiderCountInCluster failed"))

\* calculateSignalScore(scoreInput), await upsertTransaction(this.db, {...}),
\* then the routing by shouldTriggerUrgentAlert.  The counters
\* transactionsCreated and transactionsUpdated of stats are not touched.
UpsertTransaction(r) ==
    LET s == run[r]
        data == TransactionData(s)
        result == upsertTransaction(transactions, data)
        s1 == [s EXCEPT
                !.transaction = Some(result.row),
                !.saved = Append(@, [id |-> result.row.id, data |-> data,
                                     scoreInput |-> ScoreInputOf(s)]),
                !.done.upserted = Append(@, result.row.id),
                !.done.created = IF result.created THEN Append(@, result.row.id) ELSE @,
                !.done.updated = IF result.created THEN @ ELSE Append(@, result.row.id)]
    IN  /\ s.pc = "upsertTransaction"
        /\ UNCHANGED <<parserVars, scorerVars, digestVars, feed, webhookUrl, notifications, started>>
        /\ \/ /\ transactions' = result.table
              /\ UNCHANGED <<issuers, insiders, slackAlerts>>
              /\ IF shouldTriggerUrgentAlert(data.signalScore, TxInfo(s).transactionValue)
                 THEN Advance(r, [s1 EXCEPT !.pc = "hasSlackAlertForTransaction"])
                 ELSE Advance(r, NextTransaction(s1))
           \/ /\ UNCHANGED storeVars
              /\ Advance(r, Throw(s, "upsertTransaction failed"))

\* postUrgentAlert: await hasSlackAlertForTransaction(db, transaction.id, "urgent")
HasSlackAlertForTransaction(r) ==
    LET s == run[r]
    IN  /\ s.pc = "hasSlackAlertForTransaction"
        /\ UNCHANGED <<parserVars, scorerVars, digestVars, feed, storeVars, webhookUrl, notifications, started>>
        /\ \/ IF hasSlackAlertForTransaction(slackAlerts, s.transaction[1].id, "urgent")
              THEN Advance(r, NextTransaction(s))
              ELSE Advance(r, [s EXCEPT !.pc = "getInsiderPreviousTransaction"])
           \/ Advance(r, Throw(s, "hasSlackAlertForTransaction failed"))

\* postUrgentAlert: await getInsiderPreviousTransaction(db, insiderId,
\* transaction.transactionDate), then the message is formatted.
GetInsiderPreviousTransaction(r) ==
    LET s == run[r]
    IN  /\ s.pc = "getInsiderPreviousTransaction"
        /\ UNCHANGED <<parserVars, scorerVars, digestVars, feed, storeVars, webhookUrl, notifications, started>>
        /\ \/ \E previousTx \in getInsiderPreviousTransaction(
                    transactions, s.insider[1].id, s.transaction[1].transactionDate) :
                Advance(r, [s EXCEPT !.previousTx = previousTx, !.pc = "postMessage"])
           \/ Advance(r, Throw(s, "getInsiderPreviousTransaction failed"))

\* calculateHoldingsDelta(priorHoldings, postHoldings): the change in
\* percent, to 2 decimals (in hundredths of a percent); 0 when the prior
\* holdings are 0.
calculateHoldingsDelta(priorHoldings, postHoldings) ==
    IF priorHoldings = 0 THEN 0
    ELSE LET a == (postHoldings - priorHoldings) * 10000
             b == abs(priorHoldings)
             q == (2 * abs(a) + b) \div (2 * b)
         IN  IF (a < 0) = (priorHoldings < 0) \/ a = 0 THEN q ELSE 0 - q

\* postUrgentAlert: previousTx ? calculateHoldingsDelta(...) : undefined
HoldingsDeltaOf(s) ==
    IF s.previousTx = null THEN null
    ELSE Some(calculateHoldingsDelta(s.previousTx[1].postTransactionShares,
                                     s.transaction[1].postTransactionShares))

\* A postUrgentAlert that throws on the answer ok = false.
SendFailed_throws(s) == Throw(s, "Slack API error")

\* postUrgentAlert, response.ok false: console.error, then postUrgentAlert
\* and processTransaction return.
SendFailed(s) == NextTransaction(s)

\* postUrgentAlert: await this.slackClient.postMessage(message).  It throws
\* when no webhook is configured; a failed delivery is the answer ok = false,
\* which is logged; the counter urgentAlertsPosted of stats is not touched.
PostMessage(r) ==
    LET s == [run[r] EXCEPT !.done.sendAttempts = @ + 1]
    IN  /\ s.pc = "postMessage"
        /\ UNCHANGED <<parserVars, scorerVars, digestVars, feed, storeVars, webhookUrl, started>>
        /\ IF webhookUrl = <<>>
           THEN /\ UNCHANGED notifications
                /\ Advance(r, Throw(s, "SLACK_WEBHOOK_URL not configured"))
           ELSE \/ /\ notifications' =
                        Append(notifications,
                               [transactionId |-> s.transaction[1].id,
                                alertType |-> "urgent",
                                previousTx |-> s.previousTx,
                                holdingsDelta |-> HoldingsDeltaOf(s)])
                   /\ Advance(r, [s EXCEPT !.done.sent = @ + 1,
                                           !.sends = Append(@, [transactionId |-> s.transaction[1].id,
                                                                ok |-> TRUE]),
                                           !.pc = "recordSlackAlert"])
                \/ /\ UNCHANGED notifications
                   /\ Advance(r, SendFailed([s EXCEPT
                            !.sends = Append(@, [transactionId |-> s.transaction[1].id,
                                                 ok |-> FALSE])]))

\* postUrgentAlert, response.ok: await recordSlackAlert(this.db, {...})
RecordSlackAlert(r) ==
    LET s == run[r]
        result == recordSlackAlert(slackAlerts,
                    [transactionId |-> s.transaction[1].id,
                     issuerId |-> s.transaction[1].issuerId,
                     alertType |-> "urgent"])
    IN  /\ s.pc = "recordSlackAlert"
        /\ UNCHANGED <<parserVars, scorerVars, digestVars, feed, webhookUrl, notifications, started>>
        /\ \/ /\ slackAlerts' = result.table
              /\ UNCHANGED <<issuers, insiders, transactions>>
              /\ Advance(r, NextTransaction([s EXCEPT !.done.alertsRecorded = @ + 1]))
           \/ /\ UNCHANGED storeVars
              /\ Advance(r, Throw(s, "recordSlackAlert failed"))

\* return stats: the invocation is over.
Return(r) ==
    /\ run[r].pc = "return"
    /\ UNCHANGED <<parserVars, scorerVars, digestVars, feed, storeVars, webhookUrl, notifications, started>>
    /\ Advance(r, Locals("idle"))

Next ==
    \E r \in Runners :
        \/ StartRun(r)
        \/ FetchRecentForm4Filings(r)
        \/ FetchForm4XML(r)
        \/ UpsertIssuer(r)
        \/ UpsertInsider(r)
        \/ CheckFirstActivity(r)
        \/ GetClusterBonus(r)
        \/ UpsertTransaction(r)
        \/ HasSlackAlertForTransaction(r)
        \/ GetInsiderPreviousTransaction(r)
        \/ PostMessage(r)
        \/ RecordSlackAlert(r)
        \/ Return(r)

Spec == Init /\ [][Next]_vars

(***************************************************************************)
(* C1: processing the same filing (same document text, same filing id)     *)
(* twice, one run after the other, leaves exactly one TransactionRecord    *)
(* per distinct natural key: the second pass creates no new row, keeps     *)
(* the row's id, and the row holds the values computed by the second       *)
(* pass.                                                                   *)
(***************************************************************************)
\* The filing a has completed two passes in a row, over the same document.
ProcessedTwice(a) ==
    Len(passes[a]) = 2 /\ passes[a][1].xml = passes[a][2].xml

C1_IdempotentUpsert ==
    \A a \in Accessions :
        ProcessedTwice(a) =>
            LET first == passes[a][1]
                second == passes[a][2]
            IN  /\ Len(second.saved) = Len(first.saved)
                /\ {t.id : t \in second.rows} \subseteq {t.id : t \in first.rows}
                /\ \A i \in 1..Len(second.saved) :
                    /\ second.saved[i].id = first.saved[i].id
                    /\ Cardinality({t \in second.rows :
                            NaturalKey(t) = NaturalKey(second.saved[i].data)}) = 1
                    /\ ([id |-> second.saved[i].id] @@ second.saved[i].data)
                            \in second.rows

\* A filing processed twice whose second pass computed another score for
\* its first transaction than the first pass did.
C1_Witness ==
    \E a \in Accessions :
        /\ ProcessedTwice(a)
        /\ passes[a][1].saved # <<>>
        /\ passes[a][2].saved[1].data.signalScore
                # passes[a][1].saved[1].data.signalScore

(***************************************************************************)
(* C2: after any sequence of non-overlapping runs every TransactionRecord  *)
(* has at most one AlertRecord of type urgent; when one exists already,    *)
(* the run sends no notification and writes no AlertRecord for it.         *)
(***************************************************************************)
UrgentAlertsOf(transactionId) ==
    {alert \in slackAlerts :
        alert.transactionId = transactionId /\ alert.alertType = "urgent"}

C2_AtMostOneUrgentAlert ==
    /\ \A t \in transactions : Cardinality(UrgentAlertsOf(t.id)) <= 1
    /\ \A r \in Runners :
        run[r].pc \in {"getInsiderPreviousTransaction", "postMessage", "recordSlackAlert"}
            => UrgentAlertsOf(run[r].transaction[1].id) = {}

\* A run has come to its end having updated a transaction that has an
\* urgent AlertRecord, without attempting a send.
C2_Witness ==
    \E r \in Runners :
        /\ run[r].pc = "return"
        /\ run[r].done.sendAttempts = 0
        /\ run[r].done.thrown = <<>>
        /\ \E i \in 1..Len(run[r].done.updated) :
                UrgentAlertsOf(run[r].done.updated[i]) # {}

(***************************************************************************)
(* C3: when a stage of one filing throws, process() records one error      *)
(* entry with that filing's id and the message and still attempts every    *)
(* later filing; at return each listed filing is counted once, in          *)
(* filingsProcessed or in errors: filingsProcessed + number of error       *)
(* entries = number of listed filings.                                     *)
(***************************************************************************)
C3_EveryFilingCountedOnce ==
    \A r \in Runners :
        (run[r].pc = "return" /\ ~run[r].done.listFetchFailed) =>
            LET s == run[r]
            IN  /\ s.stats.filingsProcessed + Len(s.stats.errors) = Len(s.filings)
                /\ s.stats.errors = s.done.thrown
                /\ s.done.documentFetches =
                        [i \in 1..Len(s.filings) |-> s.filings[i].accessionNumber]
                /\ \A i, j \in 1..Len(s.stats.errors) :
                        s.stats.errors[i].filing = s.stats.errors[j].filing => i = j

\* The first of two filings failed at its transaction upsert and the second
\* was processed.
C3_Witness ==
    \E r \in Runners :
        /\ run[r].pc = "return"
        /\ run[r].filings = <<Entry1, Entry2>>
        /\ run[r].stats.errors =
                <<[filing |-> A1, error |-> "upsertTransaction failed"]>>
        /\ run[r].stats.filingsProcessed = 1

(***************************************************************************)
(* C4: the statistics process() returns are accurate for the run:          *)
(* transactionsCreated and transactionsUpdated count the records the run   *)
(* created and updated (their sum is the number of transaction upserts     *)
(* performed) and urgentAlertsPosted is the number of urgent               *)
(* notifications the run sent successfully.                                *)
(***************************************************************************)
C4_StatsAccurate ==
    \A r \in Runners :
        run[r].pc = "return" =>
            /\ run[r].stats.transactionsCreated = Len(run[r].done.created)
            /\ run[r].stats.transactionsUpdated = Len(run[r].done.updated)
            /\ run[r].stats.transactionsCreated + run[r].stats.transactionsUpdated
                    = Len(run[r].done.upserted)
            /\ run[r].stats.urgentAlertsPosted = run[r].done.sent

(***************************************************************************)
(* C5: when the call that fetches the filing list throws, process() does   *)
(* not throw: it returns stats with exactly one error entry, under the id  *)
(* FETCH_FILINGS, filingsProcessed = 0, and no document fetch, upsert or   *)
(* notification has been performed in that run.                            *)
(***************************************************************************)
C5_ListFetchFailure ==
    \A r \in Runners :
        run[r].done.listFetchFailed =>
            /\ run[r].pc = "return"
            /\ Len(run[r].stats.errors) = 1
            /\ run[r].stats.errors[1].filing = FETCH_FILINGS
            /\ run[r].stats.errors[1].error = "SEC EDGAR API error"
            /\ run[r].stats.filingsProcessed = 0
            /\ run[r].done.documentFetches = <<>>
            /\ run[r].done.issuerUpserts = 0
            /\ run[r].done.insiderUpserts = 0
            /\ run[r].done.upserted = <<>>
            /\ run[r].done.sendAttempts = 0
            /\ run[r].done.alertsRecorded = 0

\* The list fetch of a second run has failed, over a store the first run
\* filled.
C5_Witness ==
    \E r \in Runners :
        /\ run[r].done.listFetchFailed
        /\ run[r].pc = "return"
        /\ started = 2
        /\ transactions # {}

(***************************************************************************)
(* DailyDigestAggregator (functions/form4-processor.ts) and                *)
(* formatDailyDigest (domain/slack/formatters.ts)                          *)
(***************************************************************************)
\* The orders in which ORDER BY signalScore DESC may deliver a set of rows:
\* rows of equal score come in any order.
RECURSIVE OrderedByScoreDesc(_)
OrderedByScoreDesc(rows) ==
    IF rows = {} THEN {<<>>}
    ELSE UNION {{<<t>> \o rest : rest \in OrderedByScoreDesc(rows \ {t})} :
                t \in {x \in rows : \A y \in rows : y.signalScore <= x.signalScore}}

\* A getDailyTransactionsByDate without the condition on the date.
getDailyTransactionsByDate_anyDate(date) ==
    LET joined ==
            {t @@ [issuer |-> i, insider |-> n] :
                <<t, i, n>> \in
                    {<<t, i, n>> \in transactions \X issuers \X insiders :
                        /\ t.issuerId = i.id
                        /\ t.insiderId = n.id}}
    IN  OrderedByScoreDesc(joined)

\* getDailyTransactionsByDate: the transactions dated `date`, each joined
\* with its issuer and its insider, by descending score.  The set of the
\* lists the query may return.
getDailyTransactionsByDate(date) ==
    LET joined ==
            {t @@ [issuer |-> i, insider |-> n] :
                <<t, i, n>> \in
                    {<<t, i, n>> \in transactions \X issuers \X insiders :
                        /\ t.transactionDate = date
                        /\ t.issuerId = i.id
                        /\ t.insiderId = n.id}}
    IN  OrderedByScoreDesc(joined)

\* tx.issuer.ticker || tx.issuer.companyName
TickerOf(tx) ==
    IF Falsy(tx.issuer.ticker) THEN tx.issuer.companyName ELSE tx.issuer.ticker[1]

\* DailyDigestAggregator.groupByTicker: the Map as the sequence of its
\* entries [ticker, txs] in insertion order.
RECURSIVE groupByTicker(_)
groupByTicker(txs) ==
    IF txs = <<>> THEN <<>>
    ELSE LET grouped == groupByTicker(SubSeq(txs, 1, Len(txs) - 1))
             tx == txs[Len(txs)]
             at == {k \in 1..Len(grouped) : grouped[k].ticker = TickerOf(tx)}
         IN  IF at = {}
             THEN Append(grouped, [ticker |-> TickerOf(tx), txs |-> <<tx>>])
             ELSE LET k == CHOOSE k \in at : TRUE
                  IN  [grouped EXCEPT ![k].txs = Append(@, tx)]

\* Array.prototype.sort with the comparator (a, b) => key(b) - key(a), on a
\* sequence of [key, item]: descending by key, stable.
RECURSIVE SortDescByKey(_)
SortDescByKey(pairs) ==
    IF pairs = <<>> THEN <<>>
    ELSE LET sorted == SortDescByKey(SubSeq(pairs, 1, Len(pairs) - 1))
             last == pairs[Len(pairs)]
             n == Cardinality({k \in 1..Len(sorted) : sorted[k].key >= last.key})
         IN  SubSeq(sorted, 1, n) \o <<last>> \o SubSeq(sorted, n + 1, Len(sorted))

\* Math.max(...txs.map(tx => Math.abs(Number(tx.signalScore))))
MaxAbsScore(txs) ==
    LET scores == {abs(txs[k].signalScore) : k \in 1..Len(txs)}
    IN  CHOOSE m \in scores : \A x \in scores : x <= m

RECURSIVE SumValues(_)
SumValues(txs) ==
    IF txs = <<>> THEN 0
    ELSE txs[1].transactionValue + SumValues(Tail(txs))

\* Array.from(transactionsByTicker.values()).reduce((sum, txs) => sum + txs.length, 0)
RECURSIVE TotalLength(_)
TotalLength(entries) ==
    IF entries = <<>> THEN 0
    ELSE Len(entries[1].txs) + TotalLength(Tail(entries))

\* A detail line of a ticker section.
InsiderLine(tx) ==
    [transactionId |-> tx.id,
     name |-> tx.insider.name,
     action |-> IF tx.transactionCode = <<"P">> THEN "bought" ELSE "sold",
     value |-> tx.transactionValue,
     score |-> tx.signalScore]

\* A formatDailyDigest that lists the first three transactions of a
\* section as the query delivered them.
TickerSection_unsorted(ticker, txs) ==
    [ticker |-> ticker,
     buyCount |-> Len(SelectSeq(txs, LAMBDA tx : tx.transactionCode = <<"P">>)),
     sellCount |-> Len(SelectSeq(txs, LAMBDA tx : tx.transactionCode = <<"S">>)),
     totalValue |-> SumValues(txs),
     insiderLines |-> [k \in 1..(IF Len(txs) < 3 THEN Len(txs) ELSE 3) |->
                            InsiderLine(txs[k])],
     more |-> IF Len(txs) > 3 THEN Some(Len(txs) - 3) ELSE null]

\* The blocks formatDailyDigest pushes for one ticker: the header, the
\* lines of the top insiders (at most 3, by descending absolute score) and,
\* with more than 3 transactions, the line "...and n more transactions".
TickerSection(ticker, txs) ==
    LET sorted == SortDescByKey([k \in 1..Len(txs) |->
                        [key |-> abs(txs[k].signalScore), item |-> txs[k]]])
        topInsiders == SubSeq(sorted, 1, IF Len(sorted) < 3 THEN Len(sorted) ELSE 3)
    IN  [ticker |-> ticker,
         buyCount |-> Len(SelectSeq(txs, LAMBDA tx : tx.transactionCode = <<"P">>)),
         sellCount |-> Len(SelectSeq(txs, LAMBDA tx : tx.transactionCode = <<"S">>)),
         totalValue |-> SumValues(txs),
         insiderLines |-> [k \in 1..Len(topInsiders) |-> InsiderLine(topInsiders[k].item)],
         more |-> IF Len(txs) > 3 THEN Some(Len(txs) - 3) ELSE null]

\* formatDailyDigest(date, transactionsByTicker)
formatDailyDigest(date, transactionsByTicker) ==
    LET sortedTickers ==
            SortDescByKey([k \in 1..Len(transactionsByTicker) |->
                [key |-> MaxAbsScore(transactionsByTicker[k].txs),
                 item |-> transactionsByTicker[k]]])
    IN  [date |-> date,
         totalTransactions |-> TotalLength(transactionsByTicker),
         tickers |-> Len(transactionsByTicker),
         sections |-> [k \in 1..Len(sortedTickers) |->
                        TickerSection(sortedTickers[k].item.ticker,
                                      sortedTickers[k].item.txs)]]

(***************************************************************************)
(* generateDigest over stores the pipeline may have left                   *)
(***************************************************************************)
\* The issuers of the stores of this specification: the second has no
\* trading symbol and is listed under its name; the third, another
\* registrant (cik 56), reports the trading symbol of the first.
DigestIssuers ==
    <<[id |-> 1, cik |-> <<"1","2">>, ticker |-> Some(<<"T","S","T">>),
       companyName |-> <<"T","e","s","t">>],
      [id |-> 2, cik |-> <<"3","4">>, ticker |-> null,
       companyName |-> <<"O","t","h","e","r">>],
      [id |-> 3, cik |-> <<"5","6">>, ticker |-> Some(<<"T","S","T">>),
       companyName |-> <<"T","e","s","t"," ","L","P">>]>>

StoredInsider(id, issuer, name, title) ==
    [id |-> id, issuerId |-> issuer.id, name |-> name, title |-> title]

\* Joe, Ann, Bob, Cyd and Dan of the first issuer, Eve of the second, Fay
\* of the third.
DigestInsiders ==
    <<StoredInsider(1, DigestIssuers[1], <<"J","o","e">>, Some(CEO)),
      StoredInsider(2, DigestIssuers[1], <<"A","n","n">>, Some(Director)),
      StoredInsider(3, DigestIssuers[1], <<"B","o","b">>, Some(<<"C","F","O">>)),
      StoredInsider(4, DigestIssuers[1], <<"C","y","d">>, null),
      StoredInsider(5, DigestIssuers[1], <<"D","a","n">>, Some(Director)),
      StoredInsider(6, DigestIssuers[2], <<"E","v","e">>, Some(Director)),
      StoredInsider(7, DigestIssuers[3], <<"F","a","y">>, Some(Director))>>

\* The row upsertTransaction has stored for a transaction of the insider,
\* scored with the given first-activity flag and cluster count.
StoredTransaction(id, accession, insider, date, code, shares, price, first, cluster) ==
    [id |-> id,
     filingAccession |-> accession,
     insiderId |-> insider.id,
     issuerId |-> insider.issuerId,
     transactionDate |-> date,
     transactionCode |-> code,
     shares |-> shares,
     price |-> price,
     transactionValue |-> Times(shares, price),
     postTransactionShares |-> shares,
     isDirectOwnership |-> TRUE,
     is10b51 |-> FALSE,
     signalScore |->
        calculateSignalScore(
            [transactionCode |-> code,
             transactionValue |-> Times(shares, price),
             insiderTitle |-> insider.title,
             isFirstActivityIn180Days |-> Some(first),
             additionalInsidersInCluster |-> Some(cluster)]).score]

\* Day 200: (1) Joe buys 500,000 (score 5.1), (2) Ann sells 5,000 (-1.0),
\* (3) Bob sells 2,000,000 (-3.45), (4) Cyd buys 250,000 (2.8), (5) Dan buys
\* 5,000 with two others in the cluster (3.0), (6) Eve buys 5,000 of the
\* second issuer (1.0).  Day 201: (7) Joe sells 5,000 (-1.5).  Day 200:
\* (8) Fay buys 5,000 of the third issuer (1.0).
DigestTransactions ==
    <<StoredTransaction(1, A1, DigestInsiders[1], 200, <<"P">>, 500000, 10000, TRUE, 0),
      StoredTransaction(2, A2, DigestInsiders[2], 200, <<"S">>, 10000, 5000, FALSE, 0),
      StoredTransaction(3, A2, DigestInsiders[3], 200, <<"S">>, 2000000, 10000, FALSE, 0),
      StoredTransaction(4, A2, DigestInsiders[4], 200, <<"P">>, 250000, 10000, TRUE, 0),
      StoredTransaction(5, A2, DigestInsiders[5], 200, <<"P">>, 10000, 5000, FALSE, 2),
      StoredTransaction(6, A2, DigestInsiders[6], 200, <<"P">>, 10000, 5000, FALSE, 0),
      StoredTransaction(7, A1, DigestInsiders[1], 201, <<"S">>, 10000, 5000, FALSE, 0),
      StoredTransaction(8, A3, DigestInsiders[7], 200, <<"P">>, 10000, 5000, FALSE, 0)>>

\* The sets of transactions the stores of this specification hold.
DigestStores ==
    {{DigestTransactions[k] : k \in ks} :
        ks \in {{}, {7}, {1, 6}, {1, 8}, {1, 2, 3, 7}, {2, 3, 4, 5, 6},
                {1, 2, 3, 4, 5, 7}}}

\* The dates generateDigest is called with.
DigestDates == {200, 201, 202}

MaxDigests == 2

DigestInit ==
    /\ ParserIdle
    /\ ScorerIdle
    /\ issuers = {DigestIssuers[k] : k \in 1..Len(DigestIssuers)}
    /\ insiders = {DigestInsiders[k] : k \in 1..Len(DigestInsiders)}
    /\ transactions \in DigestStores
    /\ slackAlerts = {}
    /\ webhookUrl \in WebhookUrls
    /\ notifications = <<>>
    /\ run = [r \in Runners |-> Locals("off")]
    /\ started = 0
    /\ passes = [a \in Accessions |-> <<>>]
    /\ feed = {}
    /\ digest = DigestLocals("idle", 0)

\* generateDigest(date) is invoked.
StartDigest ==
    /\ digest.pc = "idle"
    /\ digest.invocations < MaxDigests
    /\ \E date \in DigestDates :
        digest' = [DigestLocals("getDailyTransactionsByDate", digest.invocations + 1)
                    EXCEPT !.stats = NewDigestStats(date),
                           !.done.sentBefore = Len(notifications),
                           !.done.alertsBefore = slackAlerts]
    /\ UNCHANGED <<parserVars, scorerVars, pipelineVars>>

\* The catch around the body of generateDigest: the message of the error
\* is put in stats.error and the stats are returned.
DigestCaught(d, errorMessage) ==
    [d EXCEPT !.stats.error = Some(errorMessage), !.pc = "return"]

\* await getDailyTransactionsByDate(this.db, date); with no transaction the
\* stats are returned as they are, otherwise the counts are set and the
\* message is formatted.  A throw ends in the outer catch.
GetDailyTransactionsByDate ==
    /\ digest.pc = "getDailyTransactionsByDate"
    /\ UNCHANGED <<parserVars, scorerVars, pipelineVars>>
    /\ \/ \E txs \in getDailyTransactionsByDate(digest.stats.date) :
            IF Len(txs) = 0
            THEN digest' = [digest EXCEPT !.pc = "return"]
            ELSE digest' = [digest EXCEPT
                    !.transactions = txs,
                    !.stats.transactionsProcessed = Len(txs),
                    !.stats.tickersIncluded = Len(groupByTicker(txs)),
                    !.pc = "postMessage"]
       \/ digest' = DigestCaught(digest, "getDailyTransactionsByDate failed")

\* A generateDigest that goes on to record the alerts after ok = false.
DigestSendFailed_recordsAnyway(d, error) ==
    [d EXCEPT !.stats.error = Some(error), !.index = 1, !.pc = "recordSlackAlert"]

\* The answer ok = false of the notifier: stats.error is set.
DigestSendFailed(d, error) ==
    [d EXCEPT !.stats.error = Some(error), !.pc = "return"]

\* await this.slackClient.postMessage(message)
DigestPostMessage ==
    LET d == [digest EXCEPT !.done.postCalls = @ + 1]
        message == formatDailyDigest(d.stats.date, groupByTicker(d.transactions))
    IN  /\ digest.pc = "postMessage"
        /\ UNCHANGED <<parserVars, scorerVars, storeVars, webhookUrl, run, started,
                       passes, feed>>
        /\ IF webhookUrl = <<>>
           THEN /\ UNCHANGED notifications
                /\ digest' = DigestCaught([d EXCEPT !.done.sendFailures = @ + 1],
                                          "SLACK_WEBHOOK_URL not configured")
           ELSE \/ /\ notifications' =
                        Append(notifications, [alertType |-> "digest", message |-> message])
                   /\ digest' = [d EXCEPT !.stats.digestPosted = TRUE,
                                          !.response = Some([ok |-> TRUE]),
                                          !.index = 1,
                                          !.pc = "recordSlackAlert"]
                \/ /\ UNCHANGED notifications
                   /\ digest' = DigestSendFailed([d EXCEPT !.done.sendFailures = @ + 1,
                                                          !.response = Some([ok |-> FALSE])],
                                                "Slack API error")

\* for (const transaction of transactions): on to the next one, or out of
\* the loop to return stats.
NextDigestRecord(d) ==
    IF d.index < Len(d.transactions)
    THEN [d EXCEPT !.index = @ + 1]
    ELSE [d EXCEPT !.pc = "return"]

\* await recordSlackAlert(this.db, {...alertType: "digest"}) for the
\* transaction the loop is at; a failure is caught in the loop and logged.
DigestRecordSlackAlert ==
    LET transaction == digest.transactions[digest.index]
        d == [digest EXCEPT !.done.recordAttempts = Append(@, transaction.id)]
        result == recordSlackAlert(slackAlerts,
                    [transactionId |-> transaction.id,
                     issuerId |-> transaction.issuerId,
                     alertType |-> "digest"])
    IN  /\ digest.pc = "recordSlackAlert"
        /\ UNCHANGED <<parserVars, scorerVars, issuers, insiders, transactions,
                       webhookUrl, notifications, run, started, passes, feed>>
        /\ \/ /\ slackAlerts' = result.table
              /\ digest' = NextDigestRecord(d)
           \/ /\ UNCHANGED slackAlerts
              /\ digest' = NextDigestRecord([d EXCEPT !.done.recordFailures =
                                                Append(@, transaction.id)])

\* return stats: the invocation is over.
DigestReturn ==
    /\ digest.pc = "return"
    /\ digest' = DigestLocals("idle", digest.invocations)
    /\ UNCHANGED <<parserVars, scorerVars, pipelineVars>>

DigestNext ==
    \/ StartDigest
    \/ GetDailyTransactionsByDate
    \/ DigestPostMessage
    \/ DigestRecordSlackAlert
    \/ DigestReturn

DigestSpec == DigestInit /\ [][DigestNext]_vars

(***************************************************************************)
(* Claims on generateDigest                                                *)
(***************************************************************************)
\* The stored transactions dated exactly the date of the digest.
DatedTransactions == {t \in transactions : t.transactionDate = digest.stats.date}

\* C12: generateDigest(date), called when no stored transaction is dated
\* exactly `date`, returns transactionsProcessed = 0, tickersIncluded = 0
\* and digestPosted = false, has sent no notification and has written no
\* alert record: notifications and alert records are as it found them.
C12_EmptyDigest ==
    (digest.pc = "return" /\ DatedTransactions = {}) =>
        /\ digest.stats.transactionsProcessed = 0
        /\ digest.stats.tickersIncluded = 0
        /\ digest.stats.digestPosted = FALSE
        /\ digest.done.postCalls = 0
        /\ Len(notifications) = digest.done.sentBefore
        /\ slackAlerts = digest.done.alertsBefore

\* A digest returns for a date without transactions while the store holds
\* transactions of other dates, the query having succeeded.
C12_Witness ==
    /\ digest.pc = "return"
    /\ DatedTransactions = {}
    /\ transactions # {}
    /\ digest.stats.error = null
    /\ digest.stats.transactionsProcessed = 0


\* The stored transactions a digest of the date lists under the ticker.
GroupOf(date, ticker) ==
    {t \in transactions :
        /\ t.transactionDate = date
        /\ \E i \in issuers :
            /\ i.id = t.issuerId
            /\ ticker = (IF i.ticker = null THEN i.companyName ELSE i.ticker[1])}

\* The digests sent so far.
DigestsSent ==
    {notifications[k].message : k \in {j \in 1..Len(notifications) :
                                    notifications[j].alertType = "digest"}}

\* C13: in a digest, the section of a group of n transactions shows exactly
\* min(n, 3) of them in detail, no transaction of the group left out has a
\* larger absolute score than one shown, and the line with the count of
\* the n - 3 further transactions is there iff n > 3.
C13_TopThreePerGroup ==
    \A message \in DigestsSent :
        \A k \in 1..Len(message.sections) :
            LET section == message.sections[k]
                group == GroupOf(message.date, section.ticker)
                n == Cardinality(group)
                shown == {section.insiderLines[j].transactionId :
                            j \in 1..Len(section.insiderLines)}
            IN  /\ Len(section.insiderLines) = (IF n < 3 THEN n ELSE 3)
                /\ Cardinality(shown) = Len(section.insiderLines)
                /\ shown \subseteq {t.id : t \in group}
                /\ \A t \in group, u \in group :
                        (t.id \in shown /\ u.id \notin shown) =>
                            abs(u.signalScore) <= abs(t.signalScore)
                /\ section.more = (IF n > 3 THEN Some(n - 3) ELSE null)

\* A digest with a group of 5 transactions: 3 in detail, one of them a sale
\* that the query delivered last, and "2 more".
C13_Witness ==
    \E message \in DigestsSent :
        \E k \in 1..Len(message.sections) :
            /\ Cardinality(GroupOf(message.date, message.sections[k].ticker)) = 5
            /\ Len(message.sections[k].insiderLines) = 3
            /\ message.sections[k].more = Some(2)
            /\ \E j \in 1..3 : message.sections[k].insiderLines[j].score < 0


\* C14: when the send of the digest has failed, by the answer ok = false or
\* by a throw, generateDigest stands at its return with digestPosted =
\* false and the error in the stats, no alert record written or attempted
\* (the records are as the invocation found them), and the notifier called
\* exactly once.
C14_DigestSendFailure ==
    digest.done.sendFailures > 0 =>
        /\ digest.pc = "return"
        /\ digest.stats.digestPosted = FALSE
        /\ digest.stats.error # null
        /\ digest.done.postCalls = 1
        /\ digest.done.recordAttempts = <<>>
        /\ slackAlerts = digest.done.alertsBefore
        /\ Len(notifications) = digest.done.sentBefore

\* The notifier has answered ok = false for a digest of 5 transactions.
C14_Witness ==
    /\ digest.done.sendFailures = 1
    /\ digest.response = Some([ok |-> FALSE])
    /\ digest.stats.transactionsProcessed = 5
    /\ digest.pc = "return"

\* The notifier has thrown for want of a webhook.
C14_WitnessThrow ==
    /\ digest.done.sendFailures = 1
    /\ digest.response = null
    /\ webhookUrl = <<>>
    /\ digest.pc = "return"


\* C15: after a successful send, generateDigest has, at its return,
\* attempted one digest alert record for every transaction of the date, in
\* their order, whether or not an attempt failed; and when an attempt has
\* failed, the returned stats show it.
C15_DigestRecording ==
    (digest.pc = "return" /\ digest.response = Some([ok |-> TRUE])) =>
        /\ digest.done.recordAttempts =
                [k \in 1..Len(digest.transactions) |-> digest.transactions[k].id]
        /\ digest.done.recordFailures # <<>> =>
                (digest.stats.error # null \/ digest.stats.digestPosted = FALSE)


(***************************************************************************)
(* Claims on the scoring context and the urgent alert                      *)
(***************************************************************************)
\* The step of invocation r in which the notifier answers ok = false.
UrgentSendFails(r) ==
    /\ run[r].pc = "postMessage"
    /\ run'[r] # run[r]
    /\ webhookUrl # <<>>
    /\ notifications' = notifications

\* C16: when the send of the urgent alert for a transaction is answered
\* with ok = false, the row upserted just before stays in the store with
\* the fields of this pass, no alert record is written for it, no entry is
\* added to stats.errors, and the invocation goes on with the next
\* transaction of the filing (after the last one, the filing counts as
\* processed).
C16_UrgentSendFailure ==
    [][\A r \in Runners :
        UrgentSendFails(r) =>
            LET s == run[r]
                t == s.transaction[1]
                data == s.saved[Len(s.saved)].data
            IN  /\ transactions' = transactions
                /\ t \in transactions'
                /\ s.saved[Len(s.saved)].id = t.id
                /\ \A f \in DOMAIN data : t[f] = data[f]
                /\ slackAlerts' = slackAlerts
                /\ ~\E a \in slackAlerts' :
                        a.transactionId = t.id /\ a.alertType = "urgent"
                /\ run'[r].stats.errors = s.stats.errors
                /\ run'[r].done.thrown = s.done.thrown
                /\ IF s.txIndex < Len(relevantTransactions(s.form4Data[1]))
                   THEN /\ run'[r].pc = "checkFirstActivity"
                        /\ run'[r].index = s.index
                        /\ run'[r].txIndex = s.txIndex + 1
                   ELSE run'[r].stats.filingsProcessed = s.stats.filingsProcessed + 1]_vars

\* The send for the first transaction of a filing has been answered with
\* ok = false: the invocation stands at the second transaction, the row of
\* the first is stored, without alert record and without error.
C16_Witness ==
    \E r \in Runners :
        /\ run[r].pc = "checkFirstActivity"
        /\ run[r].txIndex = 2
        /\ webhookUrl # <<>>
        /\ run[r].done.sendAttempts = 1
        /\ run[r].done.sent = 0
        /\ run[r].done.thrown = <<>>
        /\ run[r].stats.errors = <<>>
        /\ Len(run[r].saved) = 1
        /\ \E t \in transactions : t.id = run[r].saved[1].id
        /\ slackAlerts = {}


(***************************************************************************)
(* The pipeline fed with further filings: a purchase of no shares, and a   *)
(* purchase that is urgent by its score alone                              *)
(***************************************************************************)
\* The lists fetchRecentForm4Filings returns here.
IntakeLists == {<<Entry3, Entry1>>, <<Entry2, Entry4>>, <<Entry4>>}

IntakeInit ==
    /\ ParserIdle
    /\ ScorerIdle
    /\ DigestIdle
    /\ feed = IntakeLists
    /\ issuers = {} /\ insiders = {} /\ transactions = {} /\ slackAlerts = {}
    /\ webhookUrl \in WebhookUrls
    /\ notifications = <<>>
    /\ run = [r \in Runners |-> IF r = "scheduled" THEN Locals("idle") ELSE Locals("off")]
    /\ started = 0
    /\ passes = [a \in Accessions |-> <<>>]

IntakeSpec == IntakeInit /\ [][Next]_vars

\* C17: every stored transaction has a quantity above 0 and a unit price
\* of at least 0.
C17_QuantityAndPrice ==
    \A t \in transactions : t.shares > 0 /\ t.price >= 0


\* The natural key of the row the transaction at hand is stored under.
OwnKey(s) ==
    <<s.form4Data[1].accessionNumber, s.insider[1].id,
      DateOf(TxInfo(s).transactionDate), TxInfo(s).shares, TxInfo(s).pricePerShare>>

\* The stored transactions of the actor at hand, other than the transaction
\* being scored, dated within the 180 days up to its date.
PriorInLookback(s) ==
    {t \in transactions :
        /\ t.insiderId = s.insider[1].id
        /\ NaturalKey(t) # OwnKey(s)
        /\ t.transactionDate >= DateOf(TxInfo(s).transactionDate) - FIRST_ACTIVITY_DAYS
        /\ t.transactionDate <= DateOf(TxInfo(s).transactionDate)}

\* C18: the first-activity flag a transaction is scored with is true iff
\* the store holds no prior transaction of its actor within the 180 days
\* before its date (a transaction of the same date is taken as prior here;
\* the transaction being scored is not).
C18_FirstActivityFlag ==
    \A r \in Runners :
        run[r].pc = "upsertTransaction" =>
            (run[r].isFirstActivityIn180Days = Some(PriorInLookback(run[r]) = {}))


\* The actors other than the one at hand with a stored transaction against
\* the issuer at hand dated at most `days` from the date of the transaction
\* being scored.
OtherActorsWithin(s, days) ==
    {n \in insiders :
        /\ n.id # s.insider[1].id
        /\ \E t \in transactions :
            /\ t.insiderId = n.id
            /\ t.issuerId = s.issuer[1].id
            /\ t.transactionDate >= DateOf(TxInfo(s).transactionDate) - days
            /\ t.transactionDate <= DateOf(TxInfo(s).transactionDate) + days}

EarlierRecords(t) ==
    {u \in transactions :
        u.insiderId = t.insiderId /\ u.transactionDate < t.transactionDate}

\* C20: the urgent alert just sent for a transaction carries the holdings
\* delta against the actor's most recent stored transaction dated strictly
\* before it, and no delta when there is no such transaction; the alerted
\* transaction and transactions of its date are not the prior record.
C20_HoldingsDeltaBase ==
    \A r \in Runners :
        run[r].pc = "recordSlackAlert" =>
            LET alert == notifications[Len(notifications)]
                t == run[r].transaction[1]
                earlier == EarlierRecords(t)
            IN  IF earlier = {}
                THEN alert.holdingsDelta = null
                ELSE /\ alert.previousTx # null
                     /\ alert.previousTx[1] \in earlier
                     /\ \A u \in earlier :
                            u.transactionDate <= alert.previousTx[1].transactionDate
                     /\ alert.holdingsDelta =
                            Some(calculateHoldingsDelta(
                                    alert.previousTx[1].postTransactionShares,
                                    t.postTransactionShares))


(***************************************************************************)
(* Claims on reprocessing                                                  *)
(***************************************************************************)
\* The filing a has completed two passes over the same document, the store
\* at the start of the second being as the first left it.
Reprocessed(a) ==
    /\ Len(passes[a]) = 2
    /\ passes[a][1].xml = passes[a][2].xml
    /\ passes[a][2].before = passes[a][1].after

\* The transactions to which the pass p has tried to send an urgent alert.
SendsTried(p) == {p.sends[k].transactionId : k \in 1..Len(p.sends)}

\* The transactions for which the notifier has answered ok = false in p.
SendsFailed(p) ==
    {p.sends[k].transactionId : k \in {j \in 1..Len(p.sends) : ~p.sends[j].ok}}

\* C21: when the urgent send for a transaction of a filing has failed in
\* one pass and the filing is processed again with the store unchanged in
\* between, the second pass tries the urgent send for that transaction.
C21_RetryAfterFailedSend ==
    \A a \in Accessions :
        Reprocessed(a) =>
            SendsFailed(passes[a][1]) \subseteq SendsTried(passes[a][2])


(***************************************************************************)
(* Two invocations of process() at a time                                  *)
(***************************************************************************)
OverlapInit ==
    /\ ParserIdle
    /\ ScorerIdle
    /\ DigestIdle
    /\ feed = {<<Entry1>>}
    /\ issuers = {} /\ insiders = {} /\ transactions = {} /\ slackAlerts = {}
    /\ webhookUrl \in WebhookUrls
    /\ notifications = <<>>
    /\ run = [r \in Runners |-> Locals("idle")]
    /\ started = 0
    /\ passes = [a \in Accessions |-> <<>>]

OverlapSpec == OverlapInit /\ [][Next]_vars

\* The urgent notifications sent for a transaction.
UrgentNotificationsOf(transactionId) ==
    {k \in 1..Len(notifications) :
        /\ notifications[k].alertType = "urgent"
        /\ notifications[k].transactionId = transactionId}

\* C22: with two invocations running at a time, at most one urgent
\* notification is sent and at most one urgent alert record exists for a
\* transaction.
C22_OverlapGuard ==
    \A t \in transactions :
        /\ Cardinality(UrgentNotificationsOf(t.id)) <= 1
        /\ Cardinality(UrgentAlertsOf(t.id)) <= 1


(***************************************************************************)
(* An invocation ended from outside (the job's timeout, infra/jobs.ts)     *)
(***************************************************************************)
\* The invocation r is ended at the await it is suspended at, whichever it
\* is: nothing of it runs any more; what the store held is kept with its
\* locals.  The invocation that follows is another one.  (At most MaxAborts
\* invocations are ended this way.)
MaxAborts == 1

Abort(r) ==
    /\ run[r].pc \notin {"off", "idle", "aborted"}
    /\ Cardinality({q \in Runners : run[q].pc = "aborted"}) < MaxAborts
    /\ run' = [q \in Runners |->
                IF q = r
                THEN [run[r] EXCEPT !.pc = "aborted",
                                    !.atAbort = Some([transactions |-> transactions,
                                                      slackAlerts |-> slackAlerts,
                                                      pc |-> run[r].pc])]
                ELSE IF run[q].pc = "off" THEN Locals("idle") ELSE run[q]]
    /\ UNCHANGED <<parserVars, scorerVars, digestVars, storeVars, webhookUrl,
                   notifications, started, passes, feed>>

AbortInit ==
    /\ ParserIdle
    /\ ScorerIdle
    /\ DigestIdle
    /\ feed = {<<Entry2, Entry4>>, <<Entry1>>}
    /\ issuers = {} /\ insiders = {} /\ transactions = {} /\ slackAlerts = {}
    /\ webhookUrl \in WebhookUrls
    /\ notifications = <<>>
    /\ run = [r \in Runners |-> IF r = "scheduled" THEN Locals("idle") ELSE Locals("off")]
    /\ started = 0
    /\ passes = [a \in Accessions |-> <<>>]

AbortNext ==
    \/ Next
    \/ \E r \in Runners : Abort(r)

AbortSpec == AbortInit /\ [][AbortNext]_vars

\* A stored transaction by its natural key, the actor given by name.
NamedKey(t) ==
    <<t.filingAccession,
      (CHOOSE n \in insiders : n.id = t.insiderId).name,
      t.transactionDate, t.shares, t.price>>

\* The natural keys of the transactions an uninterrupted run over the list
\* stores.
KeysOfList(filings) ==
    UNION {UNION {LET data == parse(xml, filings[k].accessionNumber,
                                    filings[k].filingDate)
                      txs == relevantTransactions(data)
                  IN  {<<data.accessionNumber, data.insider.name,
                         DateOf(txs[i].transactionDate), txs[i].shares,
                         txs[i].pricePerShare>> : i \in 1..Len(txs)} :
                  xml \in Served(filings[k].accessionNumber)} :
           k \in 1..Len(filings)}

\* The invocation q has run to its end over its list without a throw, after
\* r was ended from outside on the same list (or before it had one), with
\* the store as r left it.
CompletedAfterAbort(r, q) ==
    /\ run[r].pc = "aborted"
    /\ run[q].pc = "return"
    /\ run[q].entry[1].transactions = run[r].atAbort[1].transactions
    /\ run[q].filings # <<>>
    /\ run[r].filings \in {<<>>, run[q].filings}
    /\ run[q].done.thrown = <<>>
    /\ ~run[q].done.listFetchFailed

\* C23: after an invocation ended from outside at any await and a complete
\* run over the same list, every transaction stored before the end is still
\* stored under its id and natural key, and the stored transactions are,
\* by natural key, those of one uninterrupted run from the store the ended
\* invocation began with, each once.
C23_ResumeByRerun ==
    \A r \in Runners, q \in Runners :
        CompletedAfterAbort(r, q) =>
            LET keys == {NamedKey(t) : t \in run[r].entry[1].transactions}
                            \cup KeysOfList(run[q].filings)
            IN  /\ \A t \in run[r].atAbort[1].transactions :
                        \E u \in transactions :
                            u.id = t.id /\ NaturalKey(u) = NaturalKey(t)
                /\ {NamedKey(t) : t \in transactions} = keys
                /\ Cardinality(transactions) = Cardinality(keys)

\* An invocation was ended while it awaited the upsert of the transaction
\* of the second filing, that of the first being stored; the run after it
\* is complete.
C23_Witness ==
    \E r \in Runners, q \in Runners :
        /\ CompletedAfterAbort(r, q)
        /\ run[r].atAbort[1].pc = "upsertTransaction"
        /\ run[r].index = 2
        /\ run[r].atAbort[1].transactions # {}
        /\ Cardinality(transactions) = 2


(***************************************************************************)
(* Claims on the order of the steps of a run                               *)
(***************************************************************************)
\* The place of an await within the processing of a filing (1 to 3) and of
\* a transaction (4 to 10); 0 for the fetch of the list.
StepRank(pc) ==
    CASE pc = "fetchRecentForm4Filings" -> 0
      [] pc = "fetchForm4XML" -> 1
      [] pc = "upsertIssuer" -> 2
      [] pc = "upsertInsider" -> 3
      [] pc = "checkFirstActivity" -> 4
      [] pc = "getClusterBonus" -> 5
      [] pc = "upsertTransaction" -> 6
      [] pc = "hasSlackAlertForTransaction" -> 7
      [] pc = "getInsiderPreviousTransaction" -> 8
      [] pc = "postMessage" -> 9
      [] pc = "recordSlackAlert" -> 10
      [] OTHER -> 11

\* The entry e of a log comes before the entry f: an earlier filing, or the
\* same filing and an earlier transaction (the steps on the filing itself
\* have transaction 0), or the same transaction and an earlier step.
Before(e, f) ==
    \/ e.index < f.index
    \/ e.index = f.index /\ e.txIndex < f.txIndex
    \/ e.index = f.index /\ e.txIndex = f.txIndex /\ StepRank(e.pc) < StepRank(f.pc)

\* C24: the awaits of a run are made filing by filing in list order; for a
\* filing the issuer upsert, then the insider upsert, then the
\* transactions in extraction order; for a transaction the lookups, then
\* its upsert, then its alert steps, all before the lookups of the next.
C24_StepOrder ==
    \A r \in Runners :
        LET log == run[r].done.log
        IN  /\ \A i \in 1..Len(log) :
                /\ StepRank(log[i].pc) <= 10
                /\ (StepRank(log[i].pc) <= 3) = (log[i].txIndex = 0)
                /\ (StepRank(log[i].pc) = 0) = (log[i].index = 0)
            /\ \A i \in 1..(Len(log) - 1) : Before(log[i], log[i + 1])

\* A run over two filings has written the alert record of the first
\* transaction of a filing and then looked up the second.
C24_Witness ==
    \E r \in Runners :
        LET log == run[r].done.log
        IN  /\ run[r].pc = "return"
            /\ \E i \in 1..Len(log) : log[i].index = 2 /\ log[i].pc = "upsertTransaction"
            /\ \E i \in 1..(Len(log) - 1) :
                    /\ log[i].pc = "recordSlackAlert" /\ log[i].txIndex = 1
                    /\ log[i + 1].pc = "checkFirstActivity" /\ log[i + 1].txIndex = 2


\* C25: the groups of a digest are the issuers of the day: two transactions
\* are in one group iff they have the same issuer, every transaction of
\* the date is in exactly one group, and tickersIncluded is the number of
\* issuers with a transaction of the date.
C25_GroupsAreIssuers ==
    digest.pc = "postMessage" =>
        LET groups == groupByTicker(digest.transactions)
            GroupsOf(id) == {k \in 1..Len(groups) :
                                \E j \in 1..Len(groups[k].txs) : groups[k].txs[j].id = id}
        IN  /\ \A t \in DatedTransactions : Cardinality(GroupsOf(t.id)) = 1
            /\ \A t \in DatedTransactions, u \in DatedTransactions :
                    (GroupsOf(t.id) = GroupsOf(u.id)) = (t.issuerId = u.issuerId)
            /\ digest.stats.tickersIncluded =
                    Cardinality({t.issuerId : t \in DatedTransactions})


\* The score calculateSignalScore gives the input without the first-activity
\* bonus.
ScoreWithoutFirstActivity(input) ==
    calculateSignalScore([input EXCEPT !.isFirstActivityIn180Days = Some(FALSE)]).score

SentWithoutRecord(transactionId) ==
    /\ UrgentNotificationsOf(transactionId) # {}
    /\ UrgentAlertsOf(transactionId) = {}

\* The invocation r takes the step of its await of recordSlackAlert without
\* the record being written: the call throws, or r is ended from outside.
RecordNotWritten(r) ==
    /\ run[r].pc = "recordSlackAlert"
    /\ run'[r] # run[r]
    /\ slackAlerts' = slackAlerts

\* The invocation q stores, without a throw, a transaction whose urgent
\* notification is out with no record of it.
StoresSentWithoutRecord(q) ==
    /\ run[q].pc = "upsertTransaction"
    /\ Len(run'[q].done.upserted) = Len(run[q].done.upserted) + 1
    /\ SentWithoutRecord(run'[q].done.upserted[Len(run'[q].done.upserted)])

\* The row of transactions' the invocation q has just stored.
JustStored(q) ==
    CHOOSE t \in transactions' :
        t.id = run'[q].done.upserted[Len(run'[q].done.upserted)]

FromEmptyThen(p, q) ==
    /\ p.before.transactions = {}
    /\ q.before.transactions = p.after.transactions

\* The transactions x and y are of different insiders against one issuer,
\* dated at most CLUSTER_DETECTION_DAYS apart.
ClusterPair(x, y) ==
    /\ x.data.insiderId # y.data.insiderId
    /\ x.data.issuerId = y.data.issuerId
    /\ abs(x.data.transactionDate - y.data.transactionDate) <= CLUSTER_DETECTION_DAYS

\* C28: from an empty store, when a transaction of one actor is processed
\* and then a transaction of another actor against the same issuer dated at
\* most 7 days from it, the first is scored and stored with cluster bonus 0
\* and the second with cluster bonus 1, and the record of the first is as
\* it was after the second is stored; this in whichever order the two come.
C28_ScoresFollowOrder ==
    \A a \in Accessions, b \in Accessions :
        \A m \in 1..Len(passes[a]), n \in 1..Len(passes[b]) :
            (a # b /\ FromEmptyThen(passes[a][m], passes[b][n])) =>
                LET p == passes[a][m]
                    q == passes[b][n]
                IN  /\ \A t \in p.after.transactions : t \in q.after.transactions
                    /\ \A i \in 1..Len(p.saved), j \in 1..Len(q.saved) :
                        ClusterPair(p.saved[i], q.saved[j]) =>
                            LET x == p.saved[i]
                                y == q.saved[j]
                            IN  /\ x.scoreInput.additionalInsidersInCluster = Some(0)
                                /\ y.scoreInput.additionalInsidersInCluster = Some(1)
                                /\ calculateSignalScore(x.scoreInput).breakdown.clusterBonus = 0
                                /\ calculateSignalScore(y.scoreInput).breakdown.clusterBonus = 1
                                /\ \E t \in q.after.transactions :
                                    /\ t.id = x.id
                                    /\ t.signalScore = calculateSignalScore(x.scoreInput).score
                                /\ \E t \in q.after.transactions :
                                    /\ t.id = y.id
                                    /\ t.signalScore = calculateSignalScore(y.scoreInput).score

\* Ann's purchase of day 208 was processed first, from an empty store, and
\* Joe's sale of day 201 after it: hers is stored with cluster bonus 0, his
\* with 1.
C28_Witness ==
    /\ Len(passes[A2]) = 1
    /\ Len(passes[A1]) = 1
    /\ FromEmptyThen(passes[A2][1], passes[A1][1])
    /\ \E i \in 1..Len(passes[A1][1].saved) :
        /\ ClusterPair(passes[A2][1].saved[1], passes[A1][1].saved[i])
        /\ passes[A2][1].saved[1].scoreInput.additionalInsidersInCluster = Some(0)
        /\ passes[A1][1].saved[i].scoreInput.additionalInsidersInCluster = Some(1)
        /\ \E t \in transactions, u \in transactions :
            /\ t.id = passes[A2][1].saved[1].id
            /\ u.id = passes[A1][1].saved[i].id
            /\ t.signalScore = 280
            /\ u.signalScore = calculateSignalScore(passes[A1][1].saved[i].scoreInput).score


(***************************************************************************)
(* Claims on a failure in the middle of a filing                           *)
(***************************************************************************)
\* The awaits of processTransaction and postUrgentAlert.
TransactionSteps ==
    {"checkFirstActivity", "getClusterBonus", "upsertTransaction",
     "hasSlackAlertForTransaction", "getInsiderPreviousTransaction",
     "postMessage", "recordSlackAlert"}

\* A call made for a transaction of the filing at hand throws in this step
\* of the invocation r.
ThrowsAtTransaction(r) ==
    /\ run[r].pc \in TransactionSteps
    /\ Len(run'[r].done.thrown) = Len(run[r].done.thrown) + 1

\* C29: when a call made for transaction k of a filing throws, nothing is
\* rolled back: the issuer, the insider, the transactions of the filing
\* stored so far and the alert records stay as they are; the invocation
\* leaves the filing for the next one (or returns) and has made no step on
\* a later filing before, so the transactions after k are not processed in
\* this run; the filing gets one entry in errors and is not counted in
\* filingsProcessed.
C29_NoRollbackRestSkipped ==
    [][\A r \in Runners :
        ThrowsAtTransaction(r) =>
            LET s == run[r]
            IN  /\ issuers' = issuers /\ s.issuer[1] \in issuers'
                /\ insiders' = insiders /\ s.insider[1] \in insiders'
                /\ transactions' = transactions
                /\ Len(s.saved) >= s.txIndex - 1
                /\ \A i \in 1..Len(s.saved) :
                        \E t \in transactions' :
                            t.id = s.saved[i].id /\ NaturalKey(t) = NaturalKey(s.saved[i].data)
                /\ slackAlerts' = slackAlerts
                /\ \/ /\ run'[r].pc = "fetchForm4XML"
                      /\ run'[r].index = s.index + 1
                   \/ /\ run'[r].pc = "return"
                      /\ s.index = Len(s.filings)
                /\ \A n \in 1..Len(run'[r].done.log) :
                        LET e == run'[r].done.log[n]
                        IN  /\ e.index <= s.index
                            /\ (e.index = s.index /\ e.pc \in TransactionSteps)
                                    => e.txIndex <= s.txIndex
                /\ run'[r].stats.errors =
                        Append(s.stats.errors,
                               [filing |-> Filing(s).accessionNumber,
                                error |-> run'[r].done.thrown[Len(run'[r].done.thrown)].error])
                /\ \A n \in 1..Len(s.stats.errors) :
                        s.stats.errors[n].filing # Filing(s).accessionNumber
                /\ run'[r].stats.filingsProcessed = s.stats.filingsProcessed
    ]_vars

\* The first run, over the one filing A1 of two transactions, has returned:
\* the upsert of the second transaction threw after the first was stored
\* and its urgent alert recorded; the first and its alert are in the store,
\* the second is not, the filing is in errors and not counted.
C29_Witness ==
    \E r \in Runners :
        /\ run[r].pc = "return"
        /\ started = 1
        /\ Len(run[r].filings) = 1
        /\ run[r].done.thrown = <<[filing |-> A1, error |-> "upsertTransaction failed"]>>
        /\ run[r].stats.errors = run[r].done.thrown
        /\ run[r].stats.filingsProcessed = 0
        /\ Cardinality(issuers) = 1
        /\ Cardinality(insiders) = 1
        /\ Cardinality(transactions) = 1
        /\ \E t \in transactions :
            /\ t.filingAccession = A1
            /\ t.transactionDate = 200
            /\ Cardinality(UrgentAlertsOf(t.id)) = 1


(***************************************************************************)
(* Claims on a digest called again                                         *)
(***************************************************************************)
\* The alert records of type digest among the records, for a transaction.
DigestAlertsOf(records, transactionId) ==
    {alert \in records :
        alert.transactionId = transactionId /\ alert.alertType = "digest"}

\* C30: generateDigest does not look at the alert records: an invocation
\* for a date with transactions, its send answered ok and its records
\* written, has sent one more notification and has added one more record
\* of type digest for each transaction of the date, whatever records it
\* found (so a second call for the date leaves two of each); and records of
\* type digest do not count for the check made before an urgent alert.
C30_DigestReplays ==
    /\ (/\ digest.pc = "return"
        /\ digest.stats.digestPosted
        /\ digest.done.recordFailures = <<>>) =>
            /\ DatedTransactions # {}
            /\ Len(notifications) = digest.done.sentBefore + 1
            /\ notifications[Len(notifications)].alertType = "digest"
            /\ notifications[Len(notifications)].message.date = digest.stats.date
            /\ \A t \in DatedTransactions :
                    Cardinality(DigestAlertsOf(slackAlerts, t.id)) =
                        Cardinality(DigestAlertsOf(digest.done.alertsBefore, t.id)) + 1
    /\ \A t \in transactions :
            hasSlackAlertForTransaction(slackAlerts, t.id, "urgent") =
                (\E alert \in slackAlerts :
                    alert.transactionId = t.id /\ alert.alertType = "urgent")

\* generateDigest has returned from its second call for the same date: two
\* notifications for the date are out, every transaction of the date has
\* two records of type digest, and the check before an urgent alert finds
\* none for them.
C30_Witness ==
    /\ digest.pc = "return"
    /\ digest.invocations = 2
    /\ digest.stats.digestPosted
    /\ Len(notifications) = 2
    /\ notifications[1].message.date = digest.stats.date
    /\ notifications[2].message.date = digest.stats.date
    /\ notifications[1].message = notifications[2].message
    /\ Cardinality(DatedTransactions) >= 2
    /\ \A t \in DatedTransactions :
        /\ Cardinality(DigestAlertsOf(slackAlerts, t.id)) = 2
        /\ ~hasSlackAlertForTransaction(slackAlerts, t.id, "urgent")

====
